---------------------------- MODULE Spec2Model ----------------------------
(***************************************************************************)
(* cantools: the C source generator (generate_c_source.py) and the C code  *)
(* it emits.  The generator turns a database message into an encode and a  *)
(* decode function; the model keeps the generated statements as data and   *)
(* executes them with the semantics of C on fixed-width integers.          *)
(*                                                                         *)
(* An integer of the C program is its bit pattern: the set of the bit      *)
(* positions that are 1 (bit 0 is the least significant).  A signed value  *)
(* is its two's-complement pattern in the width of its type.  This keeps   *)
(* 64-bit values exact.                                                    *)
(*                                                                         *)
(* Spec runs the generator and the generated encode and decode, RangeSpec  *)
(* the generated is_in_range functions, and CliSpec the prompt loop of the *)
(* command line interface (cli.py): the lines that send a message, the     *)
(* nodes command and the frames received.                                  *)
(***************************************************************************)
EXTENDS Integers, Sequences, FiniteSets, TLC

(***************************************************************************)
(* Bounds of the model.                                                    *)
(***************************************************************************)
\* largest start bit of the signals of the enumerated one-signal messages
MaxStart == 8
\* largest bit length of the signals of the enumerated one-signal messages
MaxLen == 12
\* how many start bits and how many bit lengths the signals of the
\* enumerated two-signal messages take
PairStarts == 4
PairLengths == 3
\* longest frame of the enumerated messages, in bytes
MaxBytes == 8
\* how many frames the command line interface sends at most
MaxSent == 1
\* largest number of node ids given to the nodes command, and largest node
\* id typed or received
MaxNode == 3
\* largest number of lines of a log
MaxLines == 3

(***************************************************************************)
(* Constants of the program and of the C platform.                         *)
(***************************************************************************)
\* -EINVAL, the error code of the generated functions
EINVAL == 22
\* value bits of the C type int, the type of the literal 1 in (1 << shift)
IntBits == 32
\* bytes of the buffer the caller hands to encode and decode: one more
\* than the longest frame
BufBytes == MaxBytes + 1

(***************************************************************************)
(* Bit patterns.                                                           *)
(***************************************************************************)
\* the pattern of the natural number n < 2^w
BitsOf(n, w) == {b \in 0..(w - 1) : (n \div (2 ^ b)) % 2 = 1}

\* E1 << n in a type of w bits
Shl(bits, n, w) == {b + n : b \in {x \in bits : x + n < w}}

\* E1 >> n in a type of w bits; arithmetic when the type is signed
Shr(bits, n, w, signed) ==
    {b - n : b \in {x \in bits : x >= n}}
        \cup (IF signed /\ (w - 1) \in bits /\ n > 0
              THEN {b \in 0..(w - 1) : b >= w - n} ELSE {})

\* integer promotion of a value of a type of w bits: a type narrower than
\* int becomes int, and a negative value keeps its value
PromotedBits(w) == IF w < IntBits THEN IntBits ELSE w

Promote(bits, w, signed) ==
    IF w < IntBits /\ signed /\ (w - 1) \in bits
    THEN bits \cup {b \in 0..(IntBits - 1) : b >= w}
    ELSE bits

\* conversion to a type of w bits
Truncate(bits, w) == {b \in bits : b < w}

(***************************************************************************)
(* generate_c_source.py                                                    *)
(***************************************************************************)
\* the container width decode picks for a signal (type_length), which is
\* the width of the struct member _type_name gives it
type_length(signal) ==
    IF signal.length <= 8 THEN 8
    ELSE IF signal.length <= 16 THEN 16
    ELSE IF signal.length <= 32 THEN 32
    ELSE 64

\* segment_step with a slip: a little-endian segment that fills its byte
\* is shifted by pos alone, the bits consumed so far forgotten
segment_step_shift_by_pos(signal, pos, left) ==
    IF signal.byte_order = "big_endian"
    THEN IF left > pos + 1
         THEN [length |-> pos + 1,
               pos |-> 7,
               shift |-> -(left - (pos + 1)),
               mask |-> (2 ^ (pos + 1)) - 1]
         ELSE [length |-> left,
               pos |-> pos,
               shift |-> IF pos - left >= 0 THEN pos - left + 1 ELSE 8 - left,
               mask |-> ((2 ^ left) - 1) * (2 ^ (pos - left + 1))]
    ELSE IF left >= 8 - pos
         THEN [length |-> 8 - pos,
               pos |-> 0,
               shift |-> pos,
               mask |-> ((2 ^ (8 - pos)) - 1) * (2 ^ pos)]
         ELSE [length |-> left,
               pos |-> pos,
               shift |-> pos,
               mask |-> ((2 ^ left) - 1) * (2 ^ pos)]

\* segment_step with a slip: a big-endian signal goes on at the bit
\* position it started from, not at bit 7
segment_step_keeps_position(signal, pos, left) ==
    IF signal.byte_order = "big_endian"
    THEN IF left > pos + 1
         THEN [length |-> pos + 1,
               pos |-> pos,
               shift |-> -(left - (pos + 1)),
               mask |-> (2 ^ (pos + 1)) - 1]
         ELSE [length |-> left,
               pos |-> pos,
               shift |-> IF pos - left >= 0 THEN pos - left + 1 ELSE 8 - left,
               mask |-> ((2 ^ left) - 1) * (2 ^ (pos - left + 1))]
    ELSE IF left >= 8 - pos
         THEN [length |-> 8 - pos,
               pos |-> 0,
               shift |-> (left - signal.length) + pos,
               mask |-> ((2 ^ (8 - pos)) - 1) * (2 ^ pos)]
         ELSE [length |-> left,
               pos |-> pos,
               shift |-> pos,
               mask |-> ((2 ^ left) - 1) * (2 ^ pos)]

\* segment_step with a slip: the mask of the last big-endian segment is
\* not moved to the bits of the segment
segment_step_unshifted_mask(signal, pos, left) ==
    IF signal.byte_order = "big_endian"
    THEN IF left > pos + 1
         THEN [length |-> pos + 1,
               pos |-> 7,
               shift |-> -(left - (pos + 1)),
               mask |-> (2 ^ (pos + 1)) - 1]
         ELSE [length |-> left,
               pos |-> pos,
               shift |-> IF pos - left >= 0 THEN pos - left + 1 ELSE 8 - left,
               mask |-> (2 ^ left) - 1]
    ELSE IF left >= 8 - pos
         THEN [length |-> 8 - pos,
               pos |-> 0,
               shift |-> (left - signal.length) + pos,
               mask |-> ((2 ^ (8 - pos)) - 1) * (2 ^ pos)]
         ELSE [length |-> left,
               pos |-> pos,
               shift |-> pos,
               mask |-> ((2 ^ left) - 1) * (2 ^ pos)]

\* one turn of the loop of _signal_segments at bit position pos with left
\* bits to go: the segment, and the position the next turn starts from
segment_step(signal, pos, left) ==
    IF signal.byte_order = "big_endian"
    THEN IF left > pos + 1
         THEN [length |-> pos + 1,
               pos |-> 7,
               shift |-> -(left - (pos + 1)),
               mask |-> (2 ^ (pos + 1)) - 1]
         ELSE [length |-> left,
               pos |-> pos,
               shift |-> IF pos - left >= 0 THEN pos - left + 1 ELSE 8 - left,
               mask |-> ((2 ^ left) - 1) * (2 ^ (pos - left + 1))]
    ELSE IF left >= 8 - pos
         THEN [length |-> 8 - pos,
               pos |-> 0,
               shift |-> (left - signal.length) + pos,
               mask |-> ((2 ^ (8 - pos)) - 1) * (2 ^ pos)]
         ELSE [length |-> left,
               pos |-> pos,
               shift |-> pos,
               mask |-> ((2 ^ left) - 1) * (2 ^ pos)]

\* the text '<< n' or '>> n' the shift is formatted to
format_shift(shift, invert_shift) ==
    IF invert_shift
    THEN IF shift < 0 THEN [op |-> "<<", n |-> -shift]
                      ELSE [op |-> ">>", n |-> shift]
    ELSE IF shift < 0 THEN [op |-> ">>", n |-> -shift]
                      ELSE [op |-> "<<", n |-> shift]

RECURSIVE segments_from(_, _, _, _, _)
segments_from(signal, invert_shift, index, pos, left) ==
    IF left > 0
    THEN LET s == segment_step(signal, pos, left)
         IN  <<[index |-> index,
                shift |-> format_shift(s.shift, invert_shift),
                mask |-> s.mask]>>
             \o segments_from(signal, invert_shift, index + 1, s.pos,
                              left - s.length)
    ELSE <<>>

\* _signal_segments: the (index, shift, mask) tuples it yields, in order
signal_segments(signal, invert_shift) ==
    segments_from(signal, invert_shift, signal.start \div 8,
                  signal.start % 8, signal.length)


\* _type_name: the C type of the struct member of a signal
type_name(signal) ==
    IF signal.is_float
    THEN IF signal.length = 32 THEN "float"
         ELSE IF signal.length = 64 THEN "double"
         ELSE "None"
    ELSE LET t == IF signal.length <= 8 THEN "int8_t"
                  ELSE IF signal.length <= 16 THEN "int16_t"
                  ELSE IF signal.length <= 32 THEN "int32_t"
                  ELSE IF signal.length <= 64 THEN "int64_t"
                  ELSE "None"
         IN  IF t = "None" THEN t
             ELSE IF signal.is_signed THEN t
             ELSE IF t = "int8_t" THEN "uint8_t"
             ELSE IF t = "int16_t" THEN "uint16_t"
             ELSE IF t = "int32_t" THEN "uint32_t"
             ELSE "uint64_t"

\* the lines _format_encode_code appends for signal number k
encode_lines(message, k) ==
    LET signal == message.signals[k]
        segs == signal_segments(signal, FALSE)
    IN  [j \in 1..Len(segs) |->
            [index |-> segs[j].index,
             name |-> k,
             operand |-> IF signal.is_float THEN "variable" ELSE "member",
             shift |-> segs[j].shift,
             mask |-> segs[j].mask]]

RECURSIVE all_encode_lines(_, _)
all_encode_lines(message, k) ==
    IF k > Len(message.signals) THEN <<>>
    ELSE encode_lines(message, k) \o all_encode_lines(message, k + 1)

\* for index in sorted(body_per_index): body += body_per_index[index]
RECURSIVE sorted_by_index(_, _, _)
sorted_by_index(lines, index, last) ==
    IF index > last THEN <<>>
    ELSE SelectSeq(lines, LAMBDA l : l.index = index)
         \o sorted_by_index(lines, index + 1, last)

\* the conversions of _format_encode_code: name = ftoi(src_p->name) or
\* name = dtoi(src_p->name), one for every float signal
RECURSIVE encode_conversions(_, _)
encode_conversions(message, k) ==
    IF k > Len(message.signals) THEN <<>>
    ELSE (IF message.signals[k].is_float
          THEN <<[name |-> k,
                  macro |-> IF message.signals[k].length = 32
                            THEN "ftoi" ELSE "dtoi"]>>
          ELSE <<>>)
         \o encode_conversions(message, k + 1)

\* _format_encode_code: the conversions and the body of the encode function
format_encode_code(message) ==
    LET lines == all_encode_lines(message, 1)
        last == IF lines = <<>> THEN 0
                ELSE CHOOSE i \in {lines[j].index : j \in 1..Len(lines)} :
                       \A j \in 1..Len(lines) : lines[j].index <= i
    IN  [conversions |-> encode_conversions(message, 1),
         body |-> sorted_by_index(lines, 0, last)]

\* hex(mask) of the sign extension, ((1 << (type_length - length)) - 1)
\* << length, as the set of its one bits
sign_extension_mask(signal) ==
    {b \in 0..(type_length(signal) - 1) : b >= signal.length}

\* the lines _format_decode_code appends for signal number k: one per
\* segment, then the sign extension of a signed signal
decode_lines(message, k) ==
    LET signal == message.signals[k]
        segs == signal_segments(signal, TRUE)
    IN  [j \in 1..Len(segs) |->
            [kind |-> "segment",
             name |-> k,
             target |-> IF signal.is_float THEN "variable" ELSE "member",
             type_length |-> type_length(signal),
             index |-> segs[j].index,
             mask |-> segs[j].mask,
             shift |-> segs[j].shift]]
        \o (IF ~signal.is_float /\ signal.is_signed
            THEN <<[kind |-> "sign_extension",
                    name |-> k,
                    shift |-> signal.length - 1,
                    mask |-> sign_extension_mask(signal)]>>
            ELSE <<>>)

RECURSIVE all_decode_lines(_, _)
all_decode_lines(message, k) ==
    IF k > Len(message.signals) THEN <<>>
    ELSE decode_lines(message, k) \o all_decode_lines(message, k + 1)

\* the conversions of _format_decode_code: dst_p->name = itof(name) or
\* dst_p->name = itod(name), one for every float signal
RECURSIVE decode_conversions(_, _)
decode_conversions(message, k) ==
    IF k > Len(message.signals) THEN <<>>
    ELSE (IF message.signals[k].is_float
          THEN <<[kind |-> "conversion",
                  name |-> k,
                  macro |-> IF message.signals[k].length = 32
                            THEN "itof" ELSE "itod"]>>
          ELSE <<>>)
         \o decode_conversions(message, k + 1)

\* _format_decode_code: the body of the decode function, conversions last
format_decode_code(message) ==
    all_decode_lines(message, 1) \o decode_conversions(message, 1)

\* None of Python; an optional value is None or a sequence of one element
None == <<>>

\* _generate_signal: what it returns for a signal, (None, None) for a
\* multiplexer or multiplexed signal and for a signal without a C type,
\* (comment, member, choices) otherwise; the member is kept as its type
generate_signal(signal) ==
    IF signal.is_multiplexer \/ signal.multiplexer_ids # <<>>
    THEN <<None, None>>
    ELSE IF type_name(signal) = "None"
    THEN <<None, None>>
    ELSE <<<<"comment">>, <<type_name(signal)>>, <<>>>>

\* _generate_struct: the member types of the struct of the message.  It
\* unpacks every result of _generate_signal into three names, which raises
\* ValueError on a result of two elements.
generate_struct(message) ==
    IF \E k \in 1..Len(message.signals) :
           Len(generate_signal(message.signals[k])) # 3
    THEN [raised |-> "ValueError", members |-> <<>>]
    ELSE IF message.signals = <<>>
    THEN [raised |-> "", members |-> <<"uint8_t">>]
    ELSE [raised |-> "",
          members |-> [k \in 1..Len(message.signals) |->
                          generate_signal(message.signals[k])[2][1]]]

\* _get_type_suffix: the suffix of the literals compared with a value of
\* the type
get_type_suffix(t) ==
    CASE t \in {"uint8_t", "uint16_t", "uint32_t"} -> "u"
      [] t = "int64_t" -> "ll"
      [] t = "uint64_t" -> "ull"
      [] t = "float" -> "f"
      [] OTHER -> ""

\* _is_minimum_type_value.  The bounds of the model stay below 32 bits, so
\* none of them is the least value of int32_t or of int64_t.
is_minimum_type_value(t, value) ==
    CASE t = "int8_t" -> value = -128
      [] t = "int16_t" -> value = -32768
      [] t \in {"int32_t", "int64_t"} -> FALSE
      [] t \in {"uint8_t", "uint16_t", "uint32_t", "uint64_t"} -> value = 0
      [] OTHER -> FALSE

\* _is_maximum_type_value, with the same remark for the types of 32 and
\* of 64 bits
is_maximum_type_value(t, value) ==
    CASE t = "int8_t" -> value = 127
      [] t = "int16_t" -> value = 32767
      [] t = "uint8_t" -> value = 255
      [] t = "uint16_t" -> value = 65535
      [] OTHER -> FALSE

\* int(n / d) of Python for integers n and d: the quotient truncated
\* toward zero
int_of_quotient(n, d) ==
    LET an == IF n < 0 THEN -n ELSE n
        ad == IF d < 0 THEN -d ELSE d
    IN  IF (n < 0) = (d < 0) THEN an \div ad ELSE -(an \div ad)

\* int(bound / scale - offset), where offset is already signal.decimal.offset
\* / scale.  A scale is the fraction num / den; the scales of the model are
\* those by which Decimal divides exactly, so that the difference of the two
\* quotients is ((bound - offset) * den) / num.
raw_bound(signal, bound) ==
    int_of_quotient((bound - signal.offset) * signal.scale.den,
                    signal.scale.num)

\* the checks _generate_is_in_range joins with && for a signal; none stands
\* for the check 'true'
is_in_range_checks(signal) ==
    LET t == type_name(signal)
        suffix == get_type_suffix(t)
        minimum == IF signal.minimum = None THEN None
                   ELSE <<raw_bound(signal, signal.minimum[1])>>
        maximum == IF signal.maximum = None THEN None
                   ELSE <<raw_bound(signal, signal.maximum[1])>>
    IN  (IF minimum # None /\ ~is_minimum_type_value(t, minimum[1])
         THEN <<[op |-> ">=", bound |-> minimum[1], suffix |-> suffix]>>
         ELSE <<>>)
        \o (IF maximum # None /\ ~is_maximum_type_value(t, maximum[1])
            THEN <<[op |-> "<=", bound |-> maximum[1], suffix |-> suffix]>>
            ELSE <<>>)

\* _generate_is_in_range: for every signal of the message the type of the
\* parameter and the checks of its is_in_range function
generate_is_in_range(message) ==
    [k \in 1..Len(message.signals) |->
        [type_name |-> type_name(message.signals[k]),
         checks |-> is_in_range_checks(message.signals[k])]]

\* _generate_message: the definition it formats for the message; the
\* ValueError of _generate_struct ends the generator
generate_message(message) ==
    IF generate_struct(message).raised # ""
    THEN [fmt |-> generate_struct(message).raised,
          message_length |-> message.length,
          members |-> <<>>,
          encode_conversions |-> <<>>,
          encode_body |-> <<>>,
          decode_body |-> <<>>,
          is_in_range |-> <<>>]
    ELSE IF message.length > 0
    THEN [fmt |-> "DEFINITION_FMT",
          message_length |-> message.length,
          members |-> generate_struct(message).members,
          encode_conversions |-> format_encode_code(message).conversions,
          encode_body |-> format_encode_code(message).body,
          decode_body |-> format_decode_code(message),
          is_in_range |-> generate_is_in_range(message)]
    ELSE [fmt |-> "EMPTY_DEFINITION_FMT",
          message_length |-> 0,
          members |-> generate_struct(message).members,
          encode_conversions |-> <<>>,
          encode_body |-> <<>>,
          decode_body |-> <<>>,
          is_in_range |-> generate_is_in_range(message)]

(***************************************************************************)
(* The generated C code, executed.                                         *)
(***************************************************************************)
\* width and signedness of the C types of the struct members
TypeBits(t) ==
    CASE t \in {"int8_t", "uint8_t"} -> 8
      [] t \in {"int16_t", "uint16_t"} -> 16
      [] t \in {"int32_t", "uint32_t", "float"} -> 32
      [] OTHER -> 64

TypeSigned(t) == t \in {"int8_t", "int16_t", "int32_t", "int64_t"}

TypeFloat(t) == t \in {"float", "double"}

\* a float or double is its sign, its biased exponent and its fraction
\* (the fraction as a bit pattern); these are the field widths
ExponentBits(t) == IF t = "float" THEN 8 ELSE 11

FractionBits(t) == IF t = "float" THEN 23 ELSE 52

RECURSIVE ValueOf(_)
\* the natural number of a pattern (of fewer than 31 bits)
ValueOf(bits) ==
    IF bits = {} THEN 0
    ELSE LET b == CHOOSE x \in bits : TRUE
         IN  (2 ^ b) + ValueOf(bits \ {b})

\* the macros ftoi and dtoi: the object representation of the float read
\* as an unsigned integer of the same size
ftoi(value, t) ==
    value.fraction
        \cup {b + FractionBits(t) : b \in BitsOf(value.exponent, ExponentBits(t))}
        \cup (IF value.sign = 1 THEN {TypeBits(t) - 1} ELSE {})

\* the macros itof and itod: the integer's bytes read as a float
itof(bits, t) ==
    [sign |-> IF (TypeBits(t) - 1) \in bits THEN 1 ELSE 0,
     exponent |-> ValueOf({b - FractionBits(t) :
                     b \in {x \in bits : x >= FractionBits(t)
                                         /\ x < TypeBits(t) - 1}}),
     fraction |-> {b \in bits : b < FractionBits(t)}]

\* memset of a struct member to zero bytes
ZeroMember(t) ==
    IF TypeFloat(t) THEN [sign |-> 0, exponent |-> 0, fraction |-> {}]
    ELSE {}

\* (E1 << n) or (E1 >> n) for E1 of a type of w bits, after promotion.
\* A left shift of a negative value shifts its two's-complement pattern,
\* as gcc and clang define it.
c_shift(bits, shift, w, signed) ==
    IF shift.op = "<<"
    THEN Shl(Promote(bits, w, signed), shift.n, PromotedBits(w))
    ELSE Shr(Promote(bits, w, signed), shift.n, PromotedBits(w), signed)

\* dst_p[index] |= ((operand shift) & mask);
encode_statement(definition, line, src, dst) ==
    LET t == definition.members[line.name]
        operand == IF line.operand = "variable"
                   THEN ftoi(src[line.name], t)
                   ELSE src[line.name]
        signed == line.operand = "member" /\ TypeSigned(t)
        piece == c_shift(operand, line.shift, TypeBits(t), signed)
                     \cap BitsOf(line.mask, 8)
    IN  [dst EXCEPT ![line.index] = Truncate(@ \cup piece, 8)]

RECURSIVE run_encode_body(_, _, _, _)
run_encode_body(definition, k, src, dst) ==
    IF k > Len(definition.encode_body) THEN dst
    ELSE run_encode_body(definition, k + 1, src,
             encode_statement(definition, definition.encode_body[k], src, dst))

\* memset_bytes with a slip: the buffer is not cleared
memset_bytes_skipped(dst, n) == dst

\* memset(&dst_p[0], 0, message_length)
memset_bytes(dst, n) == [i \in DOMAIN dst |-> IF i < n THEN {} ELSE dst[i]]

\* c_encode with a slip: the size of the buffer is returned
c_encode_returns_size(definition, dst, src, size) ==
    IF definition.fmt = "EMPTY_DEFINITION_FMT"
    THEN [ret |-> 0, dst |-> dst]
    ELSE IF size < definition.message_length
    THEN [ret |-> -EINVAL, dst |-> dst]
    ELSE [ret |-> size,
          dst |-> run_encode_body(definition, 1, src,
                      memset_bytes(dst, definition.message_length))]

\* the generated <message>_encode(dst_p, src_p, size)
c_encode(definition, dst, src, size) ==
    IF definition.fmt = "EMPTY_DEFINITION_FMT"
    THEN [ret |-> 0, dst |-> dst]
    ELSE IF size < definition.message_length
    THEN [ret |-> -EINVAL, dst |-> dst]
    ELSE [ret |-> definition.message_length,
          dst |-> run_encode_body(definition, 1, src,
                      memset_bytes(dst, definition.message_length))]

\* the builds of the generated code: C leaves (1 << shift) undefined for
\* a shift that reaches the sign bit of int or leaves its width; a build
\* folds it to the constant 0, or the machine takes the shift modulo the
\* width
Builds == {"folded", "masked"}

\* (1 << shift) in the given build
one_shifted(shift, build) ==
    IF shift < IntBits - 1 THEN {shift}
    ELSE IF build = "folded" THEN {}
    ELSE {shift % IntBits}

\* one statement of the decode body, on the struct members and the local
\* variables
decode_statement(definition, line, src, st, build) ==
    LET t == definition.members[line.name]
    IN  IF line.kind = "segment"
        THEN LET piece == Truncate(src[line.index] \cap BitsOf(line.mask, 8),
                                   line.type_length)
                 moved == Truncate(c_shift(piece, line.shift,
                                           line.type_length, FALSE),
                                   line.type_length)
             IN  IF line.target = "variable"
                 THEN [st EXCEPT !.variables[line.name] = @ \cup moved]
                 ELSE [st EXCEPT !.members[line.name] =
                                     Truncate(@ \cup moved, TypeBits(t))]
        ELSE IF line.kind = "sign_extension"
        THEN IF Promote(st.members[line.name], TypeBits(t), TRUE)
                    \cap one_shifted(line.shift, build) # {}
             THEN [st EXCEPT !.members[line.name] =
                                 Truncate(@ \cup line.mask, TypeBits(t))]
             ELSE st
        ELSE [st EXCEPT !.members[line.name] =
                            itof(st.variables[line.name], t)]

RECURSIVE run_decode_body(_, _, _, _, _)
run_decode_body(definition, k, src, st, build) ==
    IF k > Len(definition.decode_body) THEN st
    ELSE run_decode_body(definition, k + 1, src,
             decode_statement(definition, definition.decode_body[k], src, st,
                              build),
             build)

\* memset(dst_p, 0, sizeof(*dst_p)), and the local variables set to 0
zeroed(definition) ==
    [members |-> [k \in DOMAIN definition.members |->
                     ZeroMember(definition.members[k])],
     variables |-> [k \in DOMAIN definition.members |-> {}]]

\* c_decode with a slip: the struct is cleared before the size is checked
c_decode_clears_first(definition, dst, src, size, build) ==
    IF definition.fmt = "EMPTY_DEFINITION_FMT"
    THEN [ret |-> 0, dst |-> zeroed(definition).members]
    ELSE IF size < definition.message_length
    THEN [ret |-> -EINVAL, dst |-> zeroed(definition).members]
    ELSE [ret |-> 0,
          dst |-> run_decode_body(definition, 1, src, zeroed(definition),
                                  build).members]

\* the generated <message>_decode(dst_p, src_p, size)
c_decode(definition, dst, src, size, build) ==
    IF definition.fmt = "EMPTY_DEFINITION_FMT"
    THEN [ret |-> 0, dst |-> zeroed(definition).members]
    ELSE IF size < definition.message_length
    THEN [ret |-> -EINVAL, dst |-> dst]
    ELSE [ret |-> 0,
          dst |-> run_decode_body(definition, 1, src, zeroed(definition),
                                  build).members]

\* the pattern in w bits of the literal of a check, for a bound below
\* 2^(IntBits - 1) in size: the literal of a negative bound is the negation
\* of a positive literal, which in an unsigned type wraps around
literal_bits(bound, w) ==
    IF bound >= 0 THEN BitsOf(bound, IntBits - 1)
    ELSE (0..(w - 1)) \ BitsOf((-bound) - 1, IntBits - 1)

\* a < b for two patterns of w bits
less(a, b, w, signed) ==
    IF a = b THEN FALSE
    ELSE IF signed /\ (((w - 1) \in a) # ((w - 1) \in b))
    THEN (w - 1) \in a
    ELSE LET d == (a \ b) \cup (b \ a)
         IN  (CHOOSE x \in d : \A y \in d : y <= x) \in b

\* (value >= literal) or (value <= literal) for a value of type t: the
\* value is promoted, and converted to unsigned when the literal has the
\* suffix u or ull
c_check(check, value, t) ==
    LET w == PromotedBits(TypeBits(t))
        signed == check.suffix \notin {"u", "ull"}
        v == Promote(value, TypeBits(t), TypeSigned(t))
        l == literal_bits(check.bound, w)
    IN  IF check.op = ">=" THEN ~less(v, l, w, signed)
        ELSE ~less(l, v, w, signed)

\* the generated <message>_<signal>_is_in_range(value): return (check);
c_is_in_range(entry, value) ==
    \A j \in 1..Len(entry.checks) :
        c_check(entry.checks[j], value, entry.type_name)

(***************************************************************************)
(* cli.py                                                                  *)
(***************************************************************************)
\* Cli.ARG_NODE_ID
ARG_NODE_ID == "node_id"

\* the names of the signals of a database message
signal_names(msg) == {msg.signals[k].name : k \in 1..Len(msg.signals)}

\* a dict without one key
without(data, key) == [n \in (DOMAIN data) \ {key} |-> data[n]]

\* Cli.parse_data for arguments of the form name=number, as the dict they
\* become: find_signal_by_name finds the name among the signals of the
\* message, and node_id among them when nodes.multiple_nodes is set
parse_data(msg, args, nodes_on) ==
    IF \E key \in DOMAIN args :
           key \notin signal_names(msg)
               \cup (IF nodes_on THEN {ARG_NODE_ID} ELSE {})
    THEN [raised |-> "ParseError", data |-> args]
    ELSE [raised |-> "", data |-> args]

\* fill_data with a slip: the declared minimum is ignored
fill_data_ignores_minimum(msg, data, default) ==
    [n \in signal_names(msg) |->
        IF n \in DOMAIN data THEN data[n] ELSE default]

\* Cli.fill_data: the dict with a value for every signal of the message
fill_data(msg, data, default) ==
    [n \in signal_names(msg) |->
        IF n \in DOMAIN data THEN data[n]
        ELSE LET sig == CHOOSE x \in {msg.signals[k] :
                                         k \in 1..Len(msg.signals)} :
                            x.name = n
             IN  IF sig.minimum # None /\ default < sig.minimum[1]
                 THEN sig.minimum[1]
                 ELSE default]

\* msg.encode(data) of the database: EncodeError for a value outside the
\* declared range of its signal, else the payload, kept as the values it
\* holds
message_encode(msg, data) ==
    IF \E k \in 1..Len(msg.signals) :
           LET sig == msg.signals[k]
           IN  \/ sig.minimum # None /\ data[sig.name] < sig.minimum[1]
               \/ sig.maximum # None /\ data[sig.name] > sig.maximum[1]
    THEN [raised |-> "EncodeError", data |-> data]
    ELSE [raised |-> "", data |-> data]

\* what output.execute makes of the format options: the four attributes
\* of a direction
format_options(args) ==
    LET pretty == \/ args.pretty
                  \/ args.multiline
                  \/ args.no_choice_names
                  \/ (~args.raw /\ ~args.pretty /\ ~args.none)
    IN  [raw |-> args.raw, pretty |-> pretty,
         single_line |-> ~args.multiline,
         decode_choices |-> ~args.no_choice_names]

\* output.execute with a slip: the tx_* attributes are set whatever the
\* direction given
output_execute_sets_tx_always(self, args) ==
    LET both == ~args.tx /\ ~args.rx
        tx == TRUE
        rx == args.rx \/ both
        o == format_options(args)
    IN  [rx_raw |-> IF rx THEN o.raw ELSE self.rx_raw,
         rx_pretty |-> IF rx THEN o.pretty ELSE self.rx_pretty,
         rx_single_line |-> IF rx THEN o.single_line ELSE self.rx_single_line,
         rx_decode_choices |->
             IF rx THEN o.decode_choices ELSE self.rx_decode_choices,
         tx_raw |-> IF tx THEN o.raw ELSE self.tx_raw,
         tx_pretty |-> IF tx THEN o.pretty ELSE self.tx_pretty,
         tx_single_line |-> IF tx THEN o.single_line ELSE self.tx_single_line,
         tx_decode_choices |->
             IF tx THEN o.decode_choices ELSE self.tx_decode_choices]

\* output.execute, self being the class attributes before the call: the
\* class attributes after it
output_execute(self, args) ==
    LET both == ~args.tx /\ ~args.rx
        tx == args.tx \/ both
        rx == args.rx \/ both
        o == format_options(args)
    IN  [rx_raw |-> IF rx THEN o.raw ELSE self.rx_raw,
         rx_pretty |-> IF rx THEN o.pretty ELSE self.rx_pretty,
         rx_single_line |-> IF rx THEN o.single_line ELSE self.rx_single_line,
         rx_decode_choices |->
             IF rx THEN o.decode_choices ELSE self.rx_decode_choices,
         tx_raw |-> IF tx THEN o.raw ELSE self.tx_raw,
         tx_pretty |-> IF tx THEN o.pretty ELSE self.tx_pretty,
         tx_single_line |-> IF tx THEN o.single_line ELSE self.tx_single_line,
         tx_decode_choices |->
             IF tx THEN o.decode_choices ELSE self.tx_decode_choices]

\* Command.__init__ for the output command: with -h the help is printed and
\* execute is not called
output_command(self, args) ==
    IF args.help THEN self ELSE output_execute(self, args)

\* nodes.execute with a slip: the number 0 is taken as no number given
nodes_execute_zero_means_unset(num) ==
    [number_node_ids |-> IF num = <<0>> THEN None ELSE num,
     multiple_nodes |-> TRUE]

\* nodes.execute, num being args.num: the class attributes it sets
nodes_execute(num) ==
    [number_node_ids |-> num,
     multiple_nodes |-> IF num = <<0>> THEN FALSE ELSE TRUE]

\* nodes.create_can_id, number being nodes.number_node_ids
create_can_id(msg_id, node_id, number) ==
    LET n == IF node_id = None THEN 0 ELSE node_id[1]
    IN  IF n < 0 THEN [raised |-> "ParseError", can_id |-> msg_id]
        ELSE IF number # None /\ n >= number[1]
        THEN [raised |-> "ParseError", can_id |-> msg_id]
        ELSE [raised |-> "", can_id |-> msg_id + n]

\* the loop of split_can_id: while msg_id not in known_message_ids.  It
\* never ends when no known id is at or below msg_id.
RECURSIVE split_loop(_, _, _)
split_loop(msg_id, node_id, known_message_ids) ==
    IF \A k \in known_message_ids : k > msg_id
    THEN [returns |-> FALSE, msg_id |-> msg_id, node_id |-> None]
    ELSE IF msg_id \in known_message_ids
    THEN [returns |-> TRUE, msg_id |-> msg_id, node_id |-> <<node_id>>]
    ELSE split_loop(msg_id - 1, node_id + 1, known_message_ids)

\* split_can_id with a slip: the node id is not taken off the frame id
split_can_id_keeps_node_bits(msg_id, nodes_on, number, known_message_ids) ==
    IF ~nodes_on
    THEN [returns |-> TRUE, msg_id |-> msg_id, node_id |-> None]
    ELSE IF number = None
    THEN split_loop(msg_id, 0, known_message_ids)
    ELSE [returns |-> TRUE, msg_id |-> msg_id,
          node_id |-> <<msg_id % number[1]>>]

\* split_can_id with a slip: the node id is counted from 1
split_can_id_counts_from_one(msg_id, nodes_on, number, known_message_ids) ==
    IF ~nodes_on
    THEN [returns |-> TRUE, msg_id |-> msg_id, node_id |-> None]
    ELSE IF number = None
    THEN split_loop(msg_id, 1, known_message_ids)
    ELSE [returns |-> TRUE, msg_id |-> msg_id - (msg_id % number[1]),
          node_id |-> <<msg_id % number[1]>>]

\* nodes.split_can_id, nodes_on being nodes.multiple_nodes, number
\* nodes.number_node_ids and known_message_ids the frame ids of the database
split_can_id(msg_id, nodes_on, number, known_message_ids) ==
    IF ~nodes_on
    THEN [returns |-> TRUE, msg_id |-> msg_id, node_id |-> None]
    ELSE IF number = None
    THEN split_loop(msg_id, 0, known_message_ids)
    ELSE [returns |-> TRUE, msg_id |-> msg_id - (msg_id % number[1]),
          node_id |-> <<msg_id % number[1]>>]

\* the frame ids of the messages of the database
frame_ids(dbc) == {dbc[i].frame_id : i \in 1..Len(dbc)}

\* output.format_pretty_message: what it tells of a frame, the message the
\* frame id is looked up under and the node id
format_pretty_message(dbc, canmsg, nodes_on, number) ==
    LET split == split_can_id(canmsg.arbitration_id, nodes_on, number,
                              frame_ids(dbc))
    IN  [returns |-> split.returns,
         known |-> split.msg_id \in frame_ids(dbc),
         msg_id |-> split.msg_id,
         node_id |-> split.node_id,
         is_remote_frame |-> canmsg.is_remote_frame]

\* process_message_to_be_sent with a slip: the frame is sent although
\* encode raised EncodeError
process_message_sends_anyway(dbc, msg, args, nodes_on, number) ==
    LET parsed == parse_data(msg, args, nodes_on)
        node_id == IF nodes_on /\ ARG_NODE_ID \in DOMAIN args
                   THEN <<args[ARG_NODE_ID]>> ELSE None
        data == IF nodes_on THEN without(args, ARG_NODE_ID) ELSE args
        canid == IF nodes_on
                 THEN create_can_id(msg.frame_id, node_id, number)
                 ELSE [raised |-> "", can_id |-> msg.frame_id]
        is_remote_frame == DOMAIN data = {}
        filled == IF is_remote_frame THEN data ELSE fill_data(msg, data, 0)
        encoded == IF is_remote_frame THEN [raised |-> "", data |-> data]
                   ELSE message_encode(msg, filled)
        canmsg == [arbitration_id |-> canid.can_id,
                   is_remote_frame |-> is_remote_frame,
                   data |-> encoded.data]
        out == format_pretty_message(dbc, canmsg, nodes_on, number)
    IN  IF parsed.raised # ""
        THEN [raised_by |-> "parse_data", returns |-> TRUE, filled |-> FALSE,
              data |-> args, out |-> [kind |-> "ParseError"], sent |-> <<>>]
        ELSE IF canid.raised # ""
        THEN [raised_by |-> "create_can_id", returns |-> TRUE,
              filled |-> FALSE, data |-> data,
              out |-> [kind |-> "ParseError"], sent |-> <<>>]
        ELSE IF encoded.raised # ""
        THEN [raised_by |-> "encode", returns |-> TRUE, filled |-> TRUE,
              data |-> filled, out |-> [kind |-> "ParseError"],
              sent |-> <<canmsg>>]
        ELSE [raised_by |-> "", returns |-> out.returns,
              filled |-> ~is_remote_frame, data |-> filled,
              out |-> [kind |-> "tx", text |-> out],
              sent |-> IF out.returns THEN <<canmsg>> ELSE <<>>]

\* Cli.process_message_to_be_sent for the message the first word of the
\* line selects, with the ParseError that Cli.run catches and prints: what
\* raised it, whether fill_data ran, the dict data, what is printed and what
\* is handed to bus.send.  The output settings are those of the class
\* statement of output: tx_pretty, not tx_raw.
process_message_to_be_sent(dbc, msg, args, nodes_on, number) ==
    LET parsed == parse_data(msg, args, nodes_on)
        node_id == IF nodes_on /\ ARG_NODE_ID \in DOMAIN args
                   THEN <<args[ARG_NODE_ID]>> ELSE None
        data == IF nodes_on THEN without(args, ARG_NODE_ID) ELSE args
        canid == IF nodes_on
                 THEN create_can_id(msg.frame_id, node_id, number)
                 ELSE [raised |-> "", can_id |-> msg.frame_id]
        is_remote_frame == DOMAIN data = {}
        filled == IF is_remote_frame THEN data ELSE fill_data(msg, data, 0)
        encoded == IF is_remote_frame THEN [raised |-> "", data |-> data]
                   ELSE message_encode(msg, filled)
        canmsg == [arbitration_id |-> canid.can_id,
                   is_remote_frame |-> is_remote_frame,
                   data |-> encoded.data]
        out == format_pretty_message(dbc, canmsg, nodes_on, number)
    IN  IF parsed.raised # ""
        THEN [raised_by |-> "parse_data", returns |-> TRUE, filled |-> FALSE,
              data |-> args, out |-> [kind |-> "ParseError"], sent |-> <<>>]
        ELSE IF canid.raised # ""
        THEN [raised_by |-> "create_can_id", returns |-> TRUE,
              filled |-> FALSE, data |-> data,
              out |-> [kind |-> "ParseError"], sent |-> <<>>]
        ELSE IF encoded.raised # ""
        THEN [raised_by |-> "encode", returns |-> TRUE, filled |-> TRUE,
              data |-> filled, out |-> [kind |-> "ParseError"],
              sent |-> <<>>]
        ELSE [raised_by |-> "", returns |-> out.returns,
              filled |-> ~is_remote_frame, data |-> filled,
              out |-> [kind |-> "tx", text |-> out],
              sent |-> IF out.returns THEN <<canmsg>> ELSE <<>>]

(***************************************************************************)
(* cli.py, the text of a line.  A text is the sequence of its characters.  *)
(***************************************************************************)
UpperCase ==
    <<"A", "B", "C", "D", "E", "F", "G", "H", "I", "J", "K", "L", "M",
      "N", "O", "P", "Q", "R", "S", "T", "U", "V", "W", "X", "Y", "Z">>

LowerCase ==
    <<"a", "b", "c", "d", "e", "f", "g", "h", "i", "j", "k", "l", "m",
      "n", "o", "p", "q", "r", "s", "t", "u", "v", "w", "x", "y", "z">>

HexDigits ==
    <<"0", "1", "2", "3", "4", "5", "6", "7", "8", "9",
      "a", "b", "c", "d", "e", "f">>

\* the place of a character in a sequence of characters, 0 when it is not
\* in it
index_of(c, chars) ==
    IF \E k \in 1..Len(chars) : chars[k] = c
    THEN CHOOSE k \in 1..Len(chars) : chars[k] = c
    ELSE 0

\* re.I: a character and a text without regard to case
lower(c) ==
    IF index_of(c, UpperCase) > 0 THEN LowerCase[index_of(c, UpperCase)]
    ELSE c

lowered(text) == [k \in 1..Len(text) |-> lower(text[k])]

\* the value of a text of digits to a base up to 16, -1 when a character is
\* not a digit of the base or the text is empty
RECURSIVE digits_value(_, _)
digits_value(text, base) ==
    LET d == index_of(lower(text[Len(text)]), HexDigits) - 1
        front == SubSeq(text, 1, Len(text) - 1)
    IN  IF text = <<>> THEN -1
        ELSE IF d < 0 \/ d >= base THEN -1
        ELSE IF front = <<>> THEN d
        ELSE IF digits_value(front, base) < 0 THEN -1
        ELSE digits_value(front, base) * base + d

\* Cli.is_int: text[:1].isdigit()
is_int(text) ==
    text # <<>> /\ index_of(text[1], HexDigits) \in 1..10

\* Cli.parse_int: int(text, 16), for a text of letters and digits, with or
\* without the prefix 0x
parse_int(text) ==
    LET digits == IF Len(text) >= 2 /\ text[1] = "0" /\ lower(text[2]) = "x"
                  THEN SubSeq(text, 3, Len(text))
                  ELSE text
        v == digits_value(digits, 16)
    IN  IF v < 0 THEN [raised |-> "ValueError", value |-> 0]
        ELSE [raised |-> "", value |-> v]

\* Cli.parse_number for a text of letters, decimal digits and a leading
\* sign that is no float literal: int(text, base=0), float(text), else
\* ParseError
parse_number(text) ==
    LET negative == text # <<>> /\ text[1] = "-"
        digits == IF negative THEN SubSeq(text, 2, Len(text)) ELSE text
        v == digits_value(digits, 10)
    IN  IF v < 0 THEN [raised |-> "ParseError", value |-> 0]
        ELSE [raised |-> "", value |-> IF negative THEN -v ELSE v]

\* the regular expression find_in_list compiles for a name
compile(name) ==
    LET start == name # <<>> /\ name[1] = "^"
        name1 == IF start THEN SubSeq(name, 2, Len(name)) ELSE name
        end == name1 # <<>> /\ name1[Len(name1)] = "$"
        name2 == IF end THEN SubSeq(name1, 1, Len(name1) - 1) ELSE name1
    IN  [re_prefix |-> IF start THEN "" ELSE ".*",
         re_name |-> name2,
         re_suffix |-> IF end THEN "$" ELSE ""]

\* reo.match(text) with re.I: the expression matches from the first
\* character of the text, .* taking any number of characters
re_match(reo, text) ==
    \E skipped \in 0..Len(text) :
        /\ reo.re_prefix = "" => skipped = 0
        /\ skipped + Len(reo.re_name) <= Len(text)
        /\ lowered(SubSeq(text, skipped + 1, skipped + Len(reo.re_name)))
               = lowered(reo.re_name)
        /\ reo.re_suffix = "$" => skipped + Len(reo.re_name) = Len(text)

\* the characters of the names of the signals
spelling ==
    [speed |-> <<"s", "p", "e", "e", "d">>,
     gear |-> <<"g", "e", "a", "r">>,
     temp |-> <<"t", "e", "m", "p">>,
     load |-> <<"l", "o", "a", "d">>,
     node_id |-> <<"n", "o", "d", "e", "_", "i", "d">>]

\* the key a caller of find_in_list hands over, applied to an item: the
\* name of a signal, the name of a message, the name of a choice
key_of(key, item) ==
    IF key = "signal" THEN spelling[item.name] ELSE item.name

\* Cli.find_in_list: the items of l whose key the name matches, in order
find_in_list(name, l, key) ==
    SelectSeq(l, LAMBDA item : re_match(compile(name), key_of(key, item)))

\* FakeSignal(name)
FakeSignal(n) == [name |-> n, choices |-> <<>>]

\* Cli.find_signals_by_name
find_signals_by_name(msg, n, nodes_on) ==
    LET signals == [k \in 1..Len(msg.signals) |->
                       [name |-> msg.signals[k].name,
                        choices |-> msg.signals[k].choices]]
    IN  find_in_list(n,
                     IF nodes_on THEN signals \o <<FakeSignal(ARG_NODE_ID)>>
                     ELSE signals,
                     "signal")

\* Cli.find_signal_by_name: the signal, or ParseError for none or several
find_signal_by_name(msg, n, nodes_on) ==
    LET signals == find_signals_by_name(msg, n, nodes_on)
    IN  IF Len(signals) # 1
        THEN [raised |-> "ParseError", sig |-> FakeSignal(ARG_NODE_ID)]
        ELSE [raised |-> "", sig |-> signals[1]]

\* Cli.find_value_by_name: the value of the choice, or ParseError for none
\* or several
find_value_by_name(sig, val) ==
    LET possibilities == find_in_list(val, sig.choices, "choice")
    IN  IF Len(possibilities) # 1
        THEN [raised |-> "ParseError", value |-> 0]
        ELSE [raised |-> "", value |-> possibilities[1].value]

\* how often the separator occurs in an argument
count_sep(arg) == Cardinality({k \in 1..Len(arg) : arg[k] = "="})

\* the loop of Cli.parse_data from argument number i on (the first is
\* number 1): the dict, or the exception that ends the loop
RECURSIVE parse_data_from(_, _, _, _, _, _)
parse_data_from(msg, args, i, positional, data, nodes_on) ==
    IF i > Len(args) THEN [raised |-> "", data |-> data]
    ELSE
    LET arg == args[i]
        keyword == count_sep(arg) > 0
        at == CHOOSE k \in 1..(Len(arg) + 1) :
                  /\ k <= Len(arg) => arg[k] = "="
                  /\ \A j \in 1..(k - 1) : arg[j] # "="
        key == SubSeq(arg, 1, at - 1)
        strval == IF keyword THEN SubSeq(arg, at + 1, Len(arg)) ELSE arg
        found == IF keyword THEN find_signal_by_name(msg, key, nodes_on)
                 ELSE IF i - 1 >= Len(msg.signals)
                 THEN [raised |-> "ParseError", sig |-> FakeSignal(ARG_NODE_ID)]
                 ELSE [raised |-> "",
                       sig |-> [name |-> msg.signals[i].name,
                                choices |-> msg.signals[i].choices]]
        number == parse_number(strval)
        val == IF number.raised = "" THEN number
               ELSE IF found.sig.choices # <<>>
               THEN find_value_by_name(found.sig, strval)
               ELSE number
    IN  IF count_sep(arg) > 1
        THEN [raised |-> "ValueError", data |-> data]
        ELSE IF ~keyword /\ ~positional
        THEN [raised |-> "ParseError", data |-> data]
        ELSE IF found.raised # ""
        THEN [raised |-> found.raised, data |-> data]
        ELSE IF val.raised # ""
        THEN [raised |-> val.raised, data |-> data]
        ELSE parse_data_from(msg, args, i + 1, positional /\ ~keyword,
                             (found.sig.name :> val.value) @@ data,
                             nodes_on)

\* Cli.parse_data for the words typed after the first
parse_data_words(msg, args, nodes_on) ==
    parse_data_from(msg, args, 1, TRUE, <<>>, nodes_on)

\* Cli.find_messages_by_id: the first message with the frame id
find_messages_by_id(dbc, msg_id) ==
    LET found == {k \in 1..Len(dbc) : dbc[k].frame_id = msg_id}
    IN  IF found = {} THEN <<>>
        ELSE <<dbc[CHOOSE k \in found : \A j \in found : k <= j]>>

\* Cli.find_messages: the messages, or the exception of parse_int
find_messages(dbc, cmd_input) ==
    IF is_int(cmd_input)
    THEN LET msg_id == parse_int(cmd_input)
         IN  IF msg_id.raised # ""
             THEN [raised |-> msg_id.raised, messages |-> <<>>]
             ELSE [raised |-> "",
                   messages |-> find_messages_by_id(dbc, msg_id.value)]
    ELSE [raised |-> "",
          messages |-> find_in_list(cmd_input, dbc, "message")]

\* the head of process_message_to_be_sent with a slip: of several
\* possible messages the first is taken
possible_message_takes_first(dbc, cmd) ==
    LET found == find_messages(dbc, cmd)
        n == Len(found.messages)
    IN  IF found.raised # ""
        THEN [raised |-> found.raised, n |-> 0, messages |-> <<>>]
        ELSE [raised |-> "", n |-> IF n > 1 THEN 1 ELSE n,
              messages |-> found.messages]

\* the head of Cli.process_message_to_be_sent: the possible messages and
\* their number n
possible_message(dbc, cmd) ==
    LET found == find_messages(dbc, cmd)
        n == Len(found.messages)
    IN  IF found.raised # ""
        THEN [raised |-> found.raised, n |-> 0, messages |-> <<>>]
        ELSE [raised |-> "", n |-> n, messages |-> found.messages]

\* the names and aliases of the internal commands, Cli.internal_commands
internal_commands ==
    {<<"l", "o", "g">>, <<"n", "o", "d", "e", "s">>,
     <<"o", "u", "t", "p", "u", "t">>, <<"o", "u", "t">>,
     <<"q", "u", "i", "t">>, <<"q">>, <<"h", "e", "l", "p">>, <<"h">>,
     <<"?">>}

\* Integer(0, None) of the nodes command for a text of letters, decimal
\* digits and a sign
nodes_num(args) ==
    IF args = <<>> THEN [raised |-> "", num |-> None]
    ELSE IF Len(args) > 1 \/ digits_value(args[1], 10) < 0
    THEN [raised |-> "ParseError", num |-> None]
    ELSE [raised |-> "", num |-> <<digits_value(args[1], 10)>>]

\* no option given to the output command
NoOptions ==
    [help |-> FALSE, tx |-> FALSE, rx |-> FALSE, raw |-> FALSE,
     pretty |-> FALSE, none |-> FALSE, multiline |-> FALSE,
     no_choice_names |-> FALSE]

\* Cli.process_line for a line of words, self being the class attributes
\* of nodes and output before it: what Cli.run sees of it (the exception
\* raised, if any), what is printed, what is handed to bus.send and the
\* class attributes after it.  Options are given to the nodes command
\* only; help and log change nothing of this state.
process_line(dbc, ln, self) ==
    LET cmd == ln[1]
        args == SubSeq(ln, 2, Len(ln))
        same == [raised |-> "", returns |-> TRUE,
                 out |-> [kind |-> "none"], sent |-> <<>>,
                 multiple_nodes |-> self.multiple_nodes,
                 number_node_ids |-> self.number_node_ids,
                 settings |-> self.settings]
        error(e) == [same EXCEPT !.raised = e]
        possible == possible_message(dbc, cmd)
        msg == possible.messages[1]
        parsed == parse_data_words(msg, args, self.multiple_nodes)
        r == process_message_to_be_sent(dbc, msg, parsed.data,
                                        self.multiple_nodes,
                                        self.number_node_ids)
    IN  IF cmd \in internal_commands
        THEN CASE cmd \in {<<"q", "u", "i", "t">>, <<"q">>} ->
                      error(IF args = <<>> THEN "QuitException"
                            ELSE "ParseError")
               [] cmd = <<"n", "o", "d", "e", "s">> ->
                      IF nodes_num(args).raised # ""
                      THEN error(nodes_num(args).raised)
                      ELSE [same EXCEPT
                               !.multiple_nodes =
                                   nodes_execute(nodes_num(args).num)
                                       .multiple_nodes,
                               !.number_node_ids =
                                   nodes_execute(nodes_num(args).num)
                                       .number_node_ids]
               [] cmd \in {<<"o", "u", "t", "p", "u", "t">>,
                           <<"o", "u", "t">>} ->
                      [same EXCEPT
                          !.settings = output_command(self.settings,
                                                      NoOptions)]
               [] OTHER -> [same EXCEPT !.out = [kind |-> "help"]]
        ELSE IF possible.raised # "" THEN error(possible.raised)
        ELSE IF possible.n <= 0
        THEN [same EXCEPT !.out = [kind |-> "not found"]]
        ELSE IF possible.n > 1
        THEN [same EXCEPT !.out = [kind |-> "ambiguous"]]
        ELSE IF parsed.raised # "" THEN error(parsed.raised)
        ELSE [same EXCEPT
                 !.raised = IF r.raised_by # "" THEN "ParseError" ELSE "",
                 !.returns = r.returns,
                 !.out = r.out,
                 !.sent = r.sent]

(***************************************************************************)
(* logreader.py.  A log line is the sequence of its fields, the pieces    *)
(* between runs of white space, each field given by the character class   *)
(* the patterns tell apart:                                                *)
(*   "chan"  vcan0          [a-zA-Z0-9]+ but not [0-9A-F]+                 *)
(*   "hex2"  F0             [0-9A-F]+, an even number of digits            *)
(*   "hex3"  1F0            [0-9A-F]+, an odd number of digits             *)
(*   "len"   [8]            \[\d+\]                                        *)
(*   "rel"   (000.000000)   \([\d.]+\), a number                           *)
(*   "dots"  (1.2.3)        \([\d.]+\), not a number                       *)
(*   "abs"   (2020-12-19 12:04:45.485261)                                  *)
(*   "log2"  486#82967A6B   [0-9A-F]+#[0-9A-F]*, data of even length       *)
(*   "log3"  486#829        [0-9A-F]+#[0-9A-F]*, data of odd length        *)
(*   "note"  anything else                                                 *)
(***************************************************************************)
\* (?P<channel>[a-zA-Z0-9]+)
is_channel(field) == field \in {"chan", "hex2", "hex3"}

\* (?P<can_id>[0-9A-F]+)
is_can_id(field) == field \in {"hex2", "hex3"}

\* (?P<timestamp>[\d.]+) in parentheses
is_timestamp(field) == field \in {"rel", "dots"}

\* the fields of a line from field number k on
fields_from(ln, k) == SubSeq(ln, k, Len(ln))

\* (?P<can_data>[0-9A-F ]*)$
is_can_data(fields) ==
    \A k \in 1..Len(fields) : fields[k] \in {"hex2", "hex3"}

\* channel, can_id, [length] and data, from field number k on
is_candump(ln, k) ==
    /\ Len(ln) >= k + 2
    /\ is_channel(ln[k])
    /\ is_can_id(ln[k + 1])
    /\ ln[k + 2] = "len"
    /\ is_can_data(fields_from(ln, k + 3))

\* the four patterns in the order detect_pattern tries them
Patterns ==
    <<"CandumpDefaultPattern", "CandumpTimestampedPattern",
      "CandumpDefaultLogPattern", "CandumpAbsoluteLogPattern">>

\* p.pattern.match(line): whether the regular expression of p matches
pattern_match(p, ln) ==
    CASE p = "CandumpDefaultPattern" -> is_candump(ln, 1)
      [] p = "CandumpTimestampedPattern" ->
             Len(ln) >= 1 /\ is_timestamp(ln[1]) /\ is_candump(ln, 2)
      [] p = "CandumpDefaultLogPattern" ->
             /\ Len(ln) = 3
             /\ is_timestamp(ln[1])
             /\ is_channel(ln[2])
             /\ ln[3] \in {"log2", "log3"}
      [] p = "CandumpAbsoluteLogPattern" ->
             Len(ln) >= 1 /\ ln[1] = "abs" /\ is_candump(ln, 2)

\* binascii.unhexlify(data) raises for an odd number of digits
odd_digits(fields) ==
    Cardinality({k \in 1..Len(fields) : fields[k] \in {"hex3", "log3"}}) % 2
        = 1

\* p.unpack(match_object): the DataFrame, or the exception of unhexlify or
\* of float
unpack(p, ln) ==
    LET k == IF p = "CandumpDefaultPattern" THEN 1 ELSE 2
        data == IF p = "CandumpDefaultLogPattern" THEN <<ln[3]>>
                ELSE fields_from(ln, k + 3)
        timestamp_format ==
            CASE p = "CandumpDefaultPattern" -> "MISSING"
              [] p = "CandumpTimestampedPattern" -> "RELATIVE"
              [] OTHER -> "ABSOLUTE"
    IN  IF odd_digits(data)
           \/ (p # "CandumpDefaultPattern" /\ ln[1] = "dots")
        THEN [raised |-> "ValueError", frame |-> None]
        ELSE [raised |-> "",
              frame |-> <<[channel |-> ln[k], frame_id |-> ln[k + 1],
                           data |-> data,
                           timestamp_format |-> timestamp_format]>>]

\* BasePattern.match: unpack when the regular expression matches, else None
base_pattern_match(p, ln) ==
    IF pattern_match(p, ln) THEN unpack(p, ln)
    ELSE [raised |-> "", frame |-> None]

\* Parser.detect_pattern: the first pattern that matches, else None
detect_pattern(ln) ==
    LET found == {k \in 1..Len(Patterns) : pattern_match(Patterns[k], ln)}
    IN  IF found = {} THEN None
        ELSE <<Patterns[CHOOSE k \in found : \A j \in found : k <= j]>>

\* Parser.parse with a slip: the pattern is detected anew for every line
parse_detects_anew(self_pattern, ln) ==
    LET p == detect_pattern(ln)
    IN  IF p = None THEN [pattern |-> p, raised |-> "", frame |-> None]
        ELSE [pattern |-> p] @@ base_pattern_match(p[1], ln)

\* Parser.parse, self_pattern being self.pattern before the call: the
\* pattern after it and what is returned or raised
parse(self_pattern, ln) ==
    LET p == IF self_pattern = None THEN detect_pattern(ln)
             ELSE self_pattern
    IN  IF p = None THEN [pattern |-> p, raised |-> "", frame |-> None]
        ELSE [pattern |-> p] @@ base_pattern_match(p[1], ln)

\* one turn of the loop of Parser.iterlines for the line read: what it
\* yields, nothing or one tuple
iterlines_yields(parsed, ln, keep) ==
    IF parsed.raised # "" THEN <<>>
    ELSE IF parsed.frame # None THEN <<[line |-> ln, frame |-> parsed.frame]>>
    ELSE IF keep THEN <<[line |-> ln, frame |-> None]>>
    ELSE <<>>

(***************************************************************************)
(* The messages, values and buffers the model runs the program on.         *)
(***************************************************************************)
ByteOrders == {"little_endian", "big_endian"}

\* the scale 1 of a signal that is not scaled, as a fraction
One == [num |-> 1, den |-> 1]

\* bit lengths of the enumerated signals: the short ones, and the widths
\* at which the member type is 32 and 64 bits wide
SignalLengths == (1..MaxLen) \cup {32, 33, 64}

\* the byte after the last one the generated code touches for the signal
needed_bytes(signal) ==
    LET segs == signal_segments(signal, FALSE)
    IN  segs[Len(segs)].index + 1

\* integer and float signals that lie inside the longest frame
Signals ==
    {s \in [start : 0..MaxStart, length : SignalLengths,
            byte_order : ByteOrders, is_signed : BOOLEAN,
            is_float : BOOLEAN, scale : {One}, offset : {0},
            minimum : {None}, maximum : {None},
            is_multiplexer : {FALSE}, multiplexer_ids : {<<>>}] :
        /\ s.is_float => (s.length \in {32, 64} /\ ~s.is_signed)
        /\ needed_bytes(s) <= MaxBytes}

\* the signals of the two-signal messages: start bits spread over two
\* bytes (0, 5, 10, 15), lengths inside a byte and across bytes (1, 4, 7)
PairSignals ==
    [start : {(5 * i) % 16 : i \in 0..(PairStarts - 1)},
     length : {(3 * i) - 2 : i \in 1..PairLengths},
     byte_order : ByteOrders, is_signed : {FALSE}, is_float : {FALSE},
     scale : {One}, offset : {0}, minimum : {None}, maximum : {None},
     is_multiplexer : {FALSE}, multiplexer_ids : {<<>>}]

\* the shortest frame that holds both signals
pair_bytes(s1, s2) ==
    IF needed_bytes(s1) >= needed_bytes(s2) THEN needed_bytes(s1)
    ELSE needed_bytes(s2)

\* the message of the cross-byte scenario: an unsigned little-endian
\* signal of 12 bits at start bit 4 in a frame of 8 bytes
ScenarioMessage ==
    [length |-> 8,
     signals |-> <<[start |-> 4, length |-> 12,
                    byte_order |-> "little_endian", is_signed |-> FALSE,
                    is_float |-> FALSE, scale |-> One, offset |-> 0,
                    minimum |-> None, maximum |-> None,
                    is_multiplexer |-> FALSE, multiplexer_ids |-> <<>>]>>]

\* a message loaded with --no-strict whose signal leaves the frame: 8 bits
\* from bit 4 of a frame of one byte
MalformedMessage ==
    [length |-> 1,
     signals |-> <<[start |-> 4, length |-> 8,
                    byte_order |-> "little_endian", is_signed |-> FALSE,
                    is_float |-> FALSE, scale |-> One, offset |-> 0,
                    minimum |-> None, maximum |-> None,
                    is_multiplexer |-> FALSE, multiplexer_ids |-> <<>>]>>]

\* a signal of the multiplexed message: 8 bits of byte 1, present for the
\* given values of the multiplexer
MultiplexedSignal(ids) ==
    [start |-> 8, length |-> 8, byte_order |-> "little_endian",
     is_signed |-> FALSE, is_float |-> FALSE, scale |-> One, offset |-> 0,
     minimum |-> None, maximum |-> None,
     is_multiplexer |-> FALSE, multiplexer_ids |-> ids]

\* a message whose multiplexer, bit 0, selects signal A (2) with the value 0
\* and signal B (3) with the value 1; A and B share byte 1
MultiplexedMessage ==
    [length |-> 2,
     signals |-> <<[start |-> 0, length |-> 1,
                    byte_order |-> "little_endian", is_signed |-> FALSE,
                    is_float |-> FALSE, scale |-> One, offset |-> 0,
                    minimum |-> None, maximum |-> None,
                    is_multiplexer |-> TRUE, multiplexer_ids |-> <<>>],
                   MultiplexedSignal(<<0>>),
                   MultiplexedSignal(<<1>>)>>]

\* the database messages: without signals, with one signal (in the
\* shortest frame that holds it), with two signals, the scenario, the
\* malformed and the multiplexed message
Messages ==
    {[length |-> n, signals |-> <<>>] : n \in 0..MaxBytes}
        \cup {[length |-> needed_bytes(s), signals |-> <<s>>] : s \in Signals}
        \cup {[length |-> pair_bytes(p[1], p[2]),
               signals |-> <<p[1], p[2]>>] :
                 p \in PairSignals \X PairSignals}
        \cup {ScenarioMessage, MalformedMessage, MultiplexedMessage}

\* the scales of the signals with a declared range: 1, 2, 1/2, -1 and -2
Scales ==
    {One, [num |-> 2, den |-> 1], [num |-> 1, den |-> 2],
     [num |-> -1, den |-> 1], [num |-> -2, den |-> 1]}

\* integer signals with a scale, an offset and declared bounds, in a field
\* narrower than its C type (4 bits) and in one that fills it (8 bits)
RangeSignals ==
    [start : {0}, length : {4, 8}, byte_order : {"little_endian"},
     is_signed : BOOLEAN, is_float : {FALSE},
     scale : Scales, offset : {0, -3},
     minimum : {None, <<-5>>, <<0>>, <<3>>},
     maximum : {None, <<7>>, <<10>>, <<255>>},
     is_multiplexer : {FALSE}, multiplexer_ids : {<<>>}]

RangeMessages == {[length |-> 1, signals |-> <<s>>] : s \in RangeSignals}

\* the numbers a caller may pass to is_in_range or store in the struct
\* member of such a signal: any number of the C type
RangeNumbers(signal) ==
    IF signal.is_signed THEN {-128, -9, -8, -5, -2, 0, 1, 3, 7, 8, 10, 127}
    ELSE {0, 1, 2, 3, 5, 7, 10, 15, 16, 255}

\* their patterns in the C type of the first signal of a message
RangeValues(m) ==
    IF m.signals = <<>> THEN {}
    ELSE {Truncate(literal_bits(n, type_length(m.signals[1])),
                   type_length(m.signals[1])) :
              n \in RangeNumbers(m.signals[1])}

\* 0xABC, the raw value of the cross-byte scenario
RawABC == BitsOf(2748, 12)

\* raw values of a field of n bits: 0, all ones, the top bit alone, and the
\* bits of 0xABC the field has room for
RawValues(n) ==
    {{}, 0..(n - 1), {n - 1}, {b \in RawABC : b < n}}

\* the member holding a raw value: a signed member holds the sign-extended
\* pattern
MemberOf(raw, signal) ==
    IF signal.is_signed /\ (signal.length - 1) \in raw
    THEN raw \cup sign_extension_mask(signal)
    ELSE raw

\* 1.5 and -0.0 and the largest finite value, as float or double
FloatValues(t) ==
    {[sign |-> 0, exponent |-> (2 ^ (ExponentBits(t) - 1)) - 1,
      fraction |-> {FractionBits(t) - 1}],
     [sign |-> 1, exponent |-> 0, fraction |-> {}],
     [sign |-> 0, exponent |-> (2 ^ ExponentBits(t)) - 2,
      fraction |-> 0..(FractionBits(t) - 1)]}

\* values a caller may hold in the struct member of a signal
MemberValues(signal) ==
    IF signal.is_float THEN FloatValues(type_name(signal))
    ELSE {MemberOf(raw, signal) : raw \in RawValues(signal.length)}

\* structs a caller may hand to encode
Structs(m) ==
    IF m.signals = <<>> THEN {<<{}>>}
    ELSE IF Len(m.signals) = 1
    THEN {<<v>> : v \in MemberValues(m.signals[1])}
    ELSE {<<0..(m.signals[1].length - 1), 0..(m.signals[2].length - 1)>>,
          <<0..(m.signals[1].length - 1), {}>>,
          <<{}, 0..(m.signals[2].length - 1)>>}

\* what the memory of the caller holds before a call
Leftovers == {{}, 0..7}

LeftoverFrame(g) == [i \in 0..(BufBytes - 1) |-> g]

LeftoverStruct(members, g) ==
    [k \in DOMAIN members |->
        IF TypeFloat(members[k])
        THEN [sign |-> IF g = {} THEN 0 ELSE 1,
              exponent |-> IF g = {} THEN 0 ELSE 1,
              fraction |-> g]
        ELSE {b \in 0..(TypeBits(members[k]) - 1) : g # {}}]

\* frames a caller may hand to decode: every byte the same
FrameBytes == {255, 15, 7}

\* the sizes a caller may pass
Sizes(n) == {k \in {n - 1, n, BufBytes} : k >= 0}

(***************************************************************************)
(* State and actions.                                                      *)
(***************************************************************************)
VARIABLES
    pc,          \* what has run last
    message,     \* the database message given to the generator
    definition,  \* the code generated for it
    frame,       \* the caller's byte buffer
    tx,          \* the struct handed to encode
    rx,          \* the struct handed to decode
    size,        \* the size argument of the last call
    ret,         \* what the last call returned
    name,        \* the signal whose is_in_range was called last
    value,       \* the argument of that call
    in_range,    \* what that call returned
    multiple_nodes,   \* nodes.multiple_nodes
    number_node_ids,  \* nodes.number_node_ids
    bus,              \* the frames handed to bus.send, oldest first
    console,          \* what the last line or received frame printed
    line,             \* the last line read, or the frame received since
    settings,         \* the class attributes rx_* and tx_* of output
    stream,           \* the lines of the log given to Parser
    read,             \* how many of them readline has returned
    pattern,          \* Parser.pattern
    yielded,          \* what iterlines has yielded, oldest first
    keep_unknowns     \* the argument of iterlines

codec_vars == <<message, definition, frame, tx, rx, size, ret>>

range_vars == <<name, value, in_range>>

cli_vars == <<multiple_nodes, number_node_ids, bus, console, line, settings>>

log_vars == <<stream, read, pattern, yielded, keep_unknowns>>

vars == <<pc, codec_vars, range_vars, cli_vars, log_vars>>

NoDefinition ==
    [fmt |-> "none", message_length |-> 0, members |-> <<>>,
     encode_conversions |-> <<>>, encode_body |-> <<>>, decode_body |-> <<>>,
     is_in_range |-> <<>>]

\* nothing generated, no function called yet
CodecInit ==
    /\ message = [length |-> 0, signals |-> <<>>]
    /\ definition = NoDefinition
    /\ frame = LeftoverFrame({})
    /\ tx = <<>>
    /\ rx = <<>>
    /\ size = 0
    /\ ret = 0
    /\ name = 0
    /\ value = {}
    /\ in_range = FALSE

\* the class attributes of output as the class statement sets them
OutputDefaults ==
    [rx_raw |-> FALSE, rx_pretty |-> TRUE, rx_single_line |-> TRUE,
     rx_decode_choices |-> FALSE,
     tx_raw |-> FALSE, tx_pretty |-> TRUE, tx_single_line |-> TRUE,
     tx_decode_choices |-> FALSE]

\* the class attributes of nodes and of output as the class statements set
\* them, nothing sent, nothing printed, no line read
CliInit ==
    /\ multiple_nodes = FALSE
    /\ number_node_ids = None
    /\ bus = <<>>
    /\ console = [kind |-> "none"]
    /\ line = [kind |-> "none"]
    /\ settings = OutputDefaults

\* no log given, nothing read
LogInit ==
    /\ stream = <<>>
    /\ read = 0
    /\ pattern = None
    /\ yielded = <<>>
    /\ keep_unknowns = FALSE

Init ==
    /\ pc = "generate"
    /\ CodecInit
    /\ CliInit
    /\ LogInit

\* _do_generate_c_source generates the code of a message of the database;
\* an exception of _generate_message ends it
GenerateMessage(m) ==
    /\ pc = "generate"
    /\ pc' = IF generate_message(m).fmt = "ValueError" THEN "failed"
             ELSE "generated"
    /\ message' = m
    /\ definition' = generate_message(m)
    /\ UNCHANGED <<frame, tx, rx, size, ret, range_vars, cli_vars, log_vars>>

\* the caller declares its buffer and its structs, which hold whatever the memory held
Startup(g) ==
    /\ pc = "generated"
    /\ pc' = "ready"
    /\ frame' = LeftoverFrame(g)
    /\ rx' = LeftoverStruct(definition.members, g)
    /\ tx' = LeftoverStruct(definition.members, g)
    /\ UNCHANGED <<message, definition, size, ret, range_vars, cli_vars, log_vars>>

\* the caller fills a struct and calls <message>_encode(frame, &tx, n)
Encode(values, n) ==
    /\ pc = "ready"
    /\ pc' = "encoded"
    /\ tx' = values
    /\ size' = n
    /\ LET r == c_encode(definition, frame, values, n)
       IN  frame' = r.dst /\ ret' = r.ret
    /\ UNCHANGED <<message, definition, rx, range_vars, cli_vars, log_vars>>

\* the caller receives a frame and calls <message>_decode(&rx, frame, n);
\* build is what the running build makes of the undefined shifts
Decode(byte, n, build) ==
    /\ pc = "ready"
    /\ pc' = "decoded"
    /\ frame' = [i \in DOMAIN frame |-> BitsOf(byte, 8)]
    /\ size' = n
    /\ LET r == c_decode(definition, rx, frame', n, build)
       IN  rx' = r.dst /\ ret' = r.ret
    /\ UNCHANGED <<message, definition, tx, range_vars, cli_vars, log_vars>>

\* the caller decodes the frame it has just encoded, passing the size
\* encode returned
DecodeEncoded(build) ==
    /\ pc = "encoded"
    /\ ret >= 0
    /\ pc' = "roundtrip"
    /\ size' = ret
    /\ LET r == c_decode(definition, rx, frame, ret, build)
       IN  rx' = r.dst /\ ret' = r.ret
    /\ UNCHANGED <<message, definition, frame, tx, range_vars, cli_vars, log_vars>>

\* the caller calls <message>_<signal>_is_in_range(v) for signal number k
IsInRange(k, v) ==
    /\ pc = "ready"
    /\ pc' = "checked"
    /\ name' = k
    /\ value' = v
    /\ in_range' = c_is_in_range(definition.is_in_range[k], v)
    /\ UNCHANGED <<codec_vars, cli_vars, log_vars>>

Next ==
    \/ \E m \in Messages : GenerateMessage(m)
    \/ \E g \in Leftovers : Startup(g)
    \/ \E values \in Structs(message), n \in Sizes(message.length) :
           Encode(values, n)
    \/ \E byte \in FrameBytes, n \in Sizes(message.length), b \in Builds :
           Decode(byte, n, b)
    \/ \E b \in Builds : DecodeEncoded(b)

Spec == Init /\ [][Next]_vars

\* the generated code of the signals with a declared range: the caller
\* asks is_in_range about a number, or stores the number in the struct and
\* encodes it
RangeNext ==
    \/ \E m \in RangeMessages : GenerateMessage(m)
    \/ \E g \in Leftovers : Startup(g)
    \/ \E v \in RangeValues(message) : IsInRange(1, v)
    \/ \E v \in RangeValues(message), n \in Sizes(message.length) :
           Encode(<<v>>, n)

RangeSpec == Init /\ [][RangeNext]_vars

(***************************************************************************)
(* The command line interface: its database, the lines typed and the       *)
(* frames received.                                                        *)
(***************************************************************************)
\* the database of the docstring of nodes, Message1 at 0x010 and Message2
\* at 0x020, with signals with and without declared bounds
CliDatabase ==
    <<[frame_id |-> 16,
       name |-> <<"M", "e", "s", "s", "a", "g", "e", "1">>,
       signals |-> <<[name |-> "speed", minimum |-> None, maximum |-> None,
                      choices |-> <<>>],
                     [name |-> "gear", minimum |-> <<2>>,
                      maximum |-> <<10>>,
                      choices |-> <<[value |-> 2, name |-> <<"l", "o", "w">>],
                                    [value |-> 10, name |-> <<"h", "i", "g", "h">>]>>]>>],
      [frame_id |-> 32,
       name |-> <<"M", "e", "s", "s", "a", "g", "e", "2">>,
       signals |-> <<[name |-> "temp", minimum |-> <<-5>>,
                      maximum |-> <<-1>>, choices |-> <<>>],
                     [name |-> "load", minimum |-> None,
                      maximum |-> <<7>>, choices |-> <<>>]>>]>>

\* the numbers typed for a signal: in range, and for gear also out of range
TypedValues(n) ==
    CASE n = "speed" -> {1}
      [] n = "gear" -> {5, 11}
      [] n = "temp" -> {-2}
      [] OTHER -> {3}

\* the node ids typed: a negative one and the largest
TypedNodes == {-1, MaxNode}

\* the arguments typed after the name of a message: values for some of its
\* signals, and a node id or none
TypedArgs(msg) ==
    LET values ==
            UNION {{f \in [D -> UNION {TypedValues(n) : n \in D}] :
                       \A n \in D : f[n] \in TypedValues(n)} :
                   D \in SUBSET signal_names(msg)}
    IN  values \cup {f @@ (ARG_NODE_ID :> n) : f \in values, n \in TypedNodes}

\* the lines typed to send a message: the number of the message in the
\* database and the arguments
TypedLines ==
    UNION {{<<i, args>> : args \in TypedArgs(CliDatabase[i])} :
           i \in 1..Len(CliDatabase)}

\* the numbers given to the nodes command, None for the command without
\* argument
TypedNumbers == {None} \cup {<<n>> : n \in 0..MaxNode}

\* the frame ids received from the bus: around the ids of the database
ReceivedIds ==
    UNION {{id - 1, id, id + 1, id + MaxNode} :
           id \in frame_ids(CliDatabase)}

\* the command line interface waits at its prompt
CliStart ==
    /\ pc = "prompt"
    /\ CodecInit
    /\ CliInit
    /\ LogInit

\* a line naming message i of the database, with arguments:
\* Cli.process_line finds no internal command and calls
\* process_message_to_be_sent
SendLine(i, args) ==
    /\ pc = "prompt"
    /\ LET r == process_message_to_be_sent(CliDatabase, CliDatabase[i], args,
                                           multiple_nodes, number_node_ids)
       IN  /\ Len(bus) + Len(r.sent) <= MaxSent
           /\ pc' = IF r.returns THEN "prompt" ELSE "hung"
           /\ line' = [kind |-> "send", msg |-> i, args |-> args,
                       raised_by |-> r.raised_by, filled |-> r.filled,
                       data |-> r.data]
           /\ console' = r.out
           /\ bus' = bus \o r.sent
    /\ UNCHANGED <<multiple_nodes, number_node_ids, settings, codec_vars,
                   range_vars, log_vars>>

\* the line nodes, or nodes num: nodes.execute
NodesCommand(num) ==
    /\ pc = "prompt"
    /\ pc' = "prompt"
    /\ number_node_ids' = nodes_execute(num).number_node_ids
    /\ multiple_nodes' = nodes_execute(num).multiple_nodes
    /\ line' = [kind |-> "nodes", num |-> num]
    /\ console' = [kind |-> "none"]
    /\ UNCHANGED <<bus, settings, codec_vars, range_vars, log_vars>>

\* a frame arrives from the bus: Cli.on_receive prints it; the loop is in
\* read_line meanwhile
Receive(id) ==
    /\ pc = "prompt"
    /\ LET out == format_pretty_message(
                      CliDatabase,
                      [arbitration_id |-> id, is_remote_frame |-> FALSE,
                       data |-> <<>>],
                      multiple_nodes, number_node_ids)
       IN  /\ pc' = IF out.returns THEN "prompt" ELSE "hung"
           /\ console' = [kind |-> "rx", text |-> out]
    /\ line' = [kind |-> "receive", arbitration_id |-> id]
    /\ UNCHANGED <<multiple_nodes, number_node_ids, bus, settings, codec_vars,
                   range_vars, log_vars>>

CliNext ==
    \/ \E typed \in TypedLines : SendLine(typed[1], typed[2])
    \/ \E num \in TypedNumbers : NodesCommand(num)
    \/ \E id \in ReceivedIds : Receive(id)

CliSpec == CliStart /\ [][CliNext]_vars

\* the options typed after output, as argparse stores them
OutputArgs ==
    [help : BOOLEAN, tx : BOOLEAN, rx : BOOLEAN, raw : BOOLEAN,
     pretty : BOOLEAN, none : BOOLEAN, multiline : BOOLEAN,
     no_choice_names : BOOLEAN]

\* the line output, or out, with options
OutputCommand(args) ==
    /\ pc = "prompt"
    /\ pc' = "prompt"
    /\ settings' = output_command(settings, args)
    /\ line' = [kind |-> "output", args |-> args]
    /\ console' = [kind |-> IF args.help THEN "help" ELSE "none"]
    /\ UNCHANGED <<multiple_nodes, number_node_ids, bus, codec_vars,
                   range_vars, log_vars>>

OutputNext == \E args \in OutputArgs : OutputCommand(args)

OutputSpec == CliStart /\ [][OutputNext]_vars

\* the database of the lines typed as text: the two messages, and a
\* message without signals whose name is that of an internal command but
\* for its case
LineDatabase ==
    CliDatabase \o <<[frame_id |-> 48, name |-> <<"Q">>, signals |-> <<>>]>>

\* the lines typed, as Cli.split gives them, word by word: names of
\* messages in part, in full, anchored and by frame id, names of internal
\* commands, and arguments well and badly formed
TypedTexts ==
    {<<<<"e", "1">>>>,
     <<<<"M", "e", "s">>>>,
     <<<<"^", "M", "E", "S", "S", "A", "G", "E", "2">>>>,
     <<<<"e", "2", "$">>>>,
     <<<<"^", "q">>>>,
     <<<<"q">>>>,
     <<<<"q", "u", "i", "t">>>>,
     <<<<"1", "0">>>>,
     <<<<"1", "g">>>>,
     <<<<"1", "1">>>>,
     <<<<"0", "x", "2", "0">>>>,
     <<<<"x", "y", "z">>>>,
     <<<<"e", "1">>, <<"s", "p", "e", "e", "d", "=", "1">>>>,
     <<<<"e", "1">>, <<"s", "p", "e", "e", "d", "=", "1", "=", "2">>>>,
     <<<<"e", "1">>, <<"1">>, <<"5">>>>,
     <<<<"e", "1">>, <<"1">>, <<"5">>, <<"3">>>>,
     <<<<"e", "1">>, <<"s", "p", "e", "e", "d", "=", "1">>, <<"5">>>>,
     <<<<"e", "1">>, <<"x", "=", "1">>>>,
     <<<<"e", "1">>, <<"e", "=", "5">>>>,
     <<<<"e", "1">>, <<"s", "p", "e", "e", "d", "=", "a", "b", "c">>>>,
     <<<<"e", "1">>, <<"g", "e", "a", "r", "=", "h">>>>,
     <<<<"e", "1">>, <<"g", "e", "a", "r", "=", "x", "x">>>>,
     <<<<"e", "1">>, <<"d", "=", "1">>>>,
     <<<<"e", "1">>, <<"n", "o", "d", "e", "_", "i", "d", "=", "1">>>>,
     <<<<"e", "1">>, <<"g", "e", "a", "r", "=", "1", "1">>>>,
     <<<<"e", "2">>, <<"l", "o", "a", "d", "=", "3">>>>,
     <<<<"e", "2">>, <<"-", "2">>, <<"3">>>>,
     <<<<"n", "o", "d", "e", "s">>>>,
     <<<<"n", "o", "d", "e", "s">>, <<"0">>>>,
     <<<<"n", "o", "d", "e", "s">>, <<"3">>>>,
     <<<<"n", "o", "d", "e", "s">>, <<"x">>>>,
     <<<<"o", "u", "t">>>>,
     <<<<"h">>>>}

\* a line is read and processed: a turn of the loop of Cli.run
TypeLine(ln) ==
    /\ pc = "prompt"
    /\ \E r \in {process_line(LineDatabase, ln,
                                [multiple_nodes |-> multiple_nodes,
                                 number_node_ids |-> number_node_ids,
                                 settings |-> settings])} :
           /\ Len(bus) + Len(r.sent) <= MaxSent
           /\ pc' = IF ~r.returns THEN "hung"
                    ELSE IF r.raised = "QuitException" THEN "quit"
                    ELSE IF r.raised \in {"", "ParseError"} THEN "prompt"
                    ELSE "raised"
           /\ line' = [kind |-> "typed", ln |-> ln, raised |-> r.raised]
           /\ console' = IF r.raised = "ParseError"
                         THEN [kind |-> "ParseError"]
                         ELSE IF r.raised \in {"", "QuitException"} THEN r.out
                         ELSE [kind |-> "Traceback"]
           /\ bus' = bus \o r.sent
           /\ multiple_nodes' = r.multiple_nodes
           /\ number_node_ids' = r.number_node_ids
           /\ settings' = r.settings
    /\ UNCHANGED <<codec_vars, range_vars, log_vars>>

LineNext == \E ln \in TypedTexts : TypeLine(ln)

LineSpec == CliStart /\ [][LineNext]_vars

(***************************************************************************)
(* The log reader: the logs given to Parser and the turns of iterlines.    *)
(***************************************************************************)
\* the lines of the logs: one of each format, a line of a format with its
\* channel written in hexadecimal digits, a line of no format, an empty
\* line, and lines whose data or timestamp cannot be converted
LogLines ==
    {<<"chan", "hex3", "len", "hex2">>,
     <<"hex2", "hex3", "len">>,
     <<"rel", "chan", "hex3", "len", "hex2", "hex2">>,
     <<"rel", "chan", "log2">>,
     <<"abs", "chan", "hex3", "len", "hex2">>,
     <<"note">>,
     <<>>,
     <<"chan", "hex3", "len", "hex2", "hex3">>,
     <<"dots", "chan", "log2">>}

\* the logs: up to MaxLines lines
Streams == UNION {[1..n -> LogLines] : n \in 0..MaxLines}

\* a Parser has been made for a text stream and iterlines is called
LogStart ==
    /\ pc = "iterlines"
    /\ CodecInit
    /\ CliInit
    /\ stream \in Streams
    /\ read = 0
    /\ pattern = None
    /\ yielded = <<>>
    /\ keep_unknowns \in BOOLEAN

\* a turn of the loop of iterlines: readline returns the next line, parse
\* is called, and the tuple is yielded or the exception leaves the generator
IterlinesTurn ==
    /\ pc = "iterlines"
    /\ read < Len(stream)
    /\ LET nl == stream[read + 1]
           parsed == parse(pattern, nl)
       IN  /\ read' = read + 1
           /\ pattern' = parsed.pattern
           /\ yielded' = yielded \o iterlines_yields(parsed, nl, keep_unknowns)
           /\ pc' = IF parsed.raised # "" THEN "raised" ELSE "iterlines"
    /\ UNCHANGED <<stream, keep_unknowns, codec_vars, range_vars, cli_vars>>

\* readline returns the empty string: iterlines returns
IterlinesEnd ==
    /\ pc = "iterlines"
    /\ read = Len(stream)
    /\ pc' = "done"
    /\ UNCHANGED <<codec_vars, range_vars, cli_vars, log_vars>>

LogNext ==
    \/ IterlinesTurn
    \/ IterlinesEnd

LogSpec == LogStart /\ [][LogNext]_vars

(***************************************************************************)
(* What the claims speak of.                                               *)
(***************************************************************************)
\* the payload bit, <<byte, bit>>, that holds raw bit k of a signal (k = 0
\* is the least significant): a little-endian signal counts up from its
\* start bit; a big-endian signal has its most significant bit at its
\* start bit and goes down, from bit 0 to bit 7 of the next byte
BitPosition(signal, k) ==
    IF signal.byte_order = "little_endian"
    THEN <<(signal.start + k) \div 8, (signal.start + k) % 8>>
    ELSE LET linear == 8 * (signal.start \div 8) + (7 - (signal.start % 8))
                           + (signal.length - 1 - k)
         IN  <<linear \div 8, 7 - (linear % 8)>>

\* the bit range of a signal
BitRange(signal) == {BitPosition(signal, k) : k \in 0..(signal.length - 1)}

\* the raw bits of signal number k in the struct handed to encode
RawSent(k) ==
    IF message.signals[k].is_float
    THEN ftoi(tx[k], type_name(message.signals[k]))
    ELSE Truncate(tx[k], message.signals[k].length)

\* every raw bit of signal number k is in the frame where it belongs
PlacedInFrame(k) ==
    \A b \in 0..(message.signals[k].length - 1) :
        LET at == BitPosition(message.signals[k], b)
        IN  (b \in RawSent(k)) <=> (at[2] \in frame[at[1]])

SignalNumbers == 1..Len(message.signals)

NoOverlap ==
    \A j, k \in SignalNumbers :
        j # k => BitRange(message.signals[j]) \cap BitRange(message.signals[k]) = {}

OneSignal(byte_order, is_float) ==
    /\ Len(message.signals) = 1
    /\ message.signals[1].byte_order = byte_order
    /\ message.signals[1].is_float = is_float

Encoded == pc = "encoded" /\ ret >= 0

RoundTripped == pc = "roundtrip" /\ ret = 0

\* C1: decoding the bytes encode produced returns, for every signal that
\* is not a float (no two signals overlapping), the value that was encoded.
C1_RoundTrip ==
    (RoundTripped /\ NoOverlap) =>
        \A k \in SignalNumbers :
            ~message.signals[k].is_float => rx[k] = tx[k]

\* C2: encode places raw bit k of a little-endian signal at bit
\* (start_bit + k) mod 8 of byte (start_bit + k) div 8.
C2_LittleEndianPlacement ==
    (Encoded /\ OneSignal("little_endian", FALSE)) => PlacedInFrame(1)

\* C3: encode places the most significant raw bit of a big-endian signal
\* at its start bit and each following bit at the next lower bit, going on
\* at bit 7 of the next byte after bit 0.
C3_BigEndianPlacement ==
    (Encoded /\ OneSignal("big_endian", FALSE)) => PlacedInFrame(1)

\* the scenario: 0xABC in the 12-bit signal at start bit 4 of 8 bytes
ScenarioSent == message = ScenarioMessage /\ tx = <<RawABC>>

ScenarioBytes(byte0, byte1) ==
    /\ (ScenarioSent /\ (Encoded \/ RoundTripped)) =>
           \A i \in 0..7 :
               frame[i] = IF i = 0 THEN BitsOf(byte0, 8)
                          ELSE IF i = 1 THEN BitsOf(byte1, 8)
                          ELSE {}
    /\ (ScenarioSent /\ RoundTripped) => rx = <<RawABC>>

\* C4 as stated: encoding 0xABC gives byte 0 = 0xC4 and byte 1 = 0x0A, all
\* other bytes 0, and decoding that buffer returns 0xABC.
C4_CrossByteAsStated == ScenarioBytes(196, 10)

\* C4 amended: encoding 0xABC gives byte 0 = 0xC0 and byte 1 = 0xAB, all
\* other bytes 0, and decoding that buffer returns 0xABC.
C4_CrossByte == ScenarioBytes(192, 171)

C4_Witness == ScenarioSent /\ RoundTripped /\ frame[1] # {}

Decoded == pc \in {"decoded", "roundtrip"} /\ ret = 0

\* what the segment statements of decode assemble from the frame, before
\* any sign extension
Assembled ==
    run_decode_body(
        [definition EXCEPT !.decode_body =
            SelectSeq(@, LAMBDA l : l.kind # "sign_extension")],
        1, frame, zeroed(definition), "masked").members

\* the two's-complement value of the low n bits, in a type of w bits
TwosComplement(bits, n, w) ==
    IF (n - 1) \in bits THEN bits \cup {b \in 0..(w - 1) : b >= n} ELSE bits

SignedNumbers ==
    {k \in SignalNumbers :
        message.signals[k].is_signed /\ ~message.signals[k].is_float}

\* C5: decode gives every signed signal the two's-complement value of its
\* wire bits: with bit L-1 of the assembled value set, all bits from L up
\* to the width of the member are set too, otherwise it stays as assembled.
C5_SignExtension ==
    Decoded =>
        \A k \in SignedNumbers :
            rx[k] = TwosComplement(Assembled[k], message.signals[k].length,
                                   type_length(message.signals[k]))

\* C6: encode writes the IEEE-754 pattern of a float signal into the
\* payload bit by bit, and decoding those bytes gives the same float, for
\* every start bit and either byte order.
C6_FloatReinterpretation ==
    /\ \A o \in ByteOrders : (Encoded /\ OneSignal(o, TRUE)) => PlacedInFrame(1)
    /\ (RoundTripped /\ NoOverlap) =>
           \A k \in SignalNumbers :
               message.signals[k].is_float => rx[k] = tx[k]

\* C7: an encode that succeeds returns the length of the message in bytes
\* (0 for a message of length 0).
C7_ByteLength == Encoded => ret = message.length

C7_Witness ==
    /\ Encoded
    /\ message.length = 2
    /\ size > message.length
    /\ message.signals # <<>>

\* C8: decode with size < length returns the error code and leaves the
\* struct as it was; encode with size < length returns the error code and
\* writes no byte of the buffer.
C8_BufferTooShort ==
    [][/\ (pc' = "decoded" /\ size' < message'.length) =>
              (ret' = -EINVAL /\ rx' = rx)
       /\ (pc' = "encoded" /\ size' < message'.length) =>
              (ret' = -EINVAL /\ frame' = frame)]_vars

C8_Witness ==
    /\ pc = "decoded"
    /\ Len(message.signals) = 2
    /\ size < message.length
    /\ ret = -EINVAL
    /\ rx = <<0..7, 0..7>>

ZeroFrame == LeftoverFrame({})

\* the bits of byte i of the frame that the mask of some signal covers
CoveredBits(i) ==
    UNION {BitsOf(definition.encode_body[j].mask, 8) :
              j \in {x \in DOMAIN definition.encode_body :
                        definition.encode_body[x].index = i}}

\* C9: after an encode that succeeds, every bit of the first length bytes
\* that no signal's mask covers is 0, and these bytes are what encode gives
\* in a buffer that held zeros before.
C9_ZeroInitialised ==
    Encoded =>
        \A i \in 0..(message.length - 1) :
            /\ frame[i] \subseteq CoveredBits(i)
            /\ frame[i] = c_encode(definition, ZeroFrame, tx, size).dst[i]

C9_Witness ==
    /\ Encoded
    /\ Len(message.signals) = 2
    /\ frame[BufBytes - 1] = 0..7
    /\ \E i \in 0..(message.length - 1) : frame[i] # {}
    /\ \E i \in 0..(message.length - 1) : CoveredBits(i) # 0..7

\* the (byte index, bit) pairs of the masks _signal_segments yields
SegmentBits(signal) ==
    LET segs == signal_segments(signal, FALSE)
    IN  UNION {{<<segs[j].index, b>> : b \in BitsOf(segs[j].mask, 8)} :
                  j \in DOMAIN segs}

\* the frame encode makes, from zeros, with the statements of signal k only
EncodedAlone(k) ==
    run_encode_body(
        [definition EXCEPT !.encode_body =
            SelectSeq(@, LAMBDA l : l.name = k)],
        1, tx, ZeroFrame)

DisjointRanges(j, k) ==
    /\ j # k
    /\ BitRange(message.signals[j]) \cap BitRange(message.signals[k]) = {}

\* C10: two signals of a message whose bit ranges do not intersect get
\* segment masks that do not intersect, and the statements encode runs for
\* the one set no bit of the range of the other.
C10_NonOverlap ==
    (pc # "generate") =>
        \A j, k \in SignalNumbers :
            DisjointRanges(j, k) =>
                /\ SegmentBits(message.signals[j])
                       \cap SegmentBits(message.signals[k]) = {}
                /\ Encoded =>
                       \A at \in BitRange(message.signals[k]) :
                           at[2] \notin EncodedAlone(j)[at[1]]

C10_Witness ==
    /\ Encoded
    /\ Len(message.signals) = 2
    /\ DisjointRanges(1, 2)
    /\ \E at \in BitRange(message.signals[1]) :
           /\ at[2] \in frame[at[1]]
           /\ \E other \in BitRange(message.signals[2]) :
                  other[1] = at[1] /\ other[2] \in frame[other[1]]
    /\ message.signals[1].byte_order # message.signals[2].byte_order


(***************************************************************************)
(* The range checks.                                                       *)
(***************************************************************************)
\* the number a pattern stands for in the C type t (of at most 16 bits)
NumberOf(bits, t) ==
    IF TypeSigned(t) /\ (TypeBits(t) - 1) \in bits
    THEN ValueOf(bits) - (2 ^ TypeBits(t))
    ELSE ValueOf(bits)

\* the physical value raw * scale + offset lies within the declared
\* bounds, a missing bound not constraining (compared after multiplying
\* with the denominator of the scale)
PhysicalInBounds(signal, raw) ==
    LET physical == (raw * signal.scale.num)
                        + (signal.offset * signal.scale.den)
    IN  /\ signal.minimum # None
              => signal.minimum[1] * signal.scale.den <= physical
        /\ signal.maximum # None
              => physical <= signal.maximum[1] * signal.scale.den

\* the raw number fits in the bits of the field
FitsField(signal, raw) ==
    IF signal.is_signed
    THEN -(2 ^ (signal.length - 1)) <= raw
             /\ raw <= (2 ^ (signal.length - 1)) - 1
    ELSE 0 <= raw /\ raw <= (2 ^ signal.length) - 1

\* is_in_range has been called for a signal of the message
Checked == pc = "checked"

CheckedSignal == message.signals[name]

CheckedNumber == NumberOf(value, type_name(CheckedSignal))

\* C11: is_in_range(raw) returns true exactly when the physical value
\* raw * scale + offset lies within the declared inclusive bounds, a missing
\* bound being unconstrained
C11_RangePredicate ==
    Checked => (in_range <=> PhysicalInBounds(CheckedSignal, CheckedNumber))

\* C12: is_in_range never returns false for a raw value whose physical
\* value lies within the declared bounds
C12_NoFalseRejection ==
    (Checked /\ PhysicalInBounds(CheckedSignal, CheckedNumber)) => in_range

\* C13: is_in_range returns false for every raw value that does not fit in
\* the bits of the field
C13_FieldWidth ==
    (Checked /\ ~FitsField(CheckedSignal, CheckedNumber)) => ~in_range

\* C14: encode returns an error code when the value of a signal in the
\* source struct is outside the declared range or does not fit in the field
C14_OutOfRangeEncode ==
    (pc = "encoded" /\ size >= message.length /\ Len(message.signals) = 1
        /\ ~message.signals[1].is_float
        /\ LET n == NumberOf(tx[1], type_name(message.signals[1]))
           IN  \/ ~PhysicalInBounds(message.signals[1], n)
               \/ ~FitsField(message.signals[1], n))
    => ret < 0

(***************************************************************************)
(* Multiplexed and malformed messages.                                     *)
(***************************************************************************)
\* the message has a multiplexer signal
Multiplexed(m) == \E k \in 1..Len(m.signals) : m.signals[k].is_multiplexer

\* the multiplexed signals the multiplexer value v does not select
Inactive(m, v) ==
    {k \in 1..Len(m.signals) :
        /\ m.signals[k].multiplexer_ids # <<>>
        /\ \A j \in 1..Len(m.signals[k].multiplexer_ids) :
               m.signals[k].multiplexer_ids[j] # v}

\* the value decode has read for the multiplexer of the message
MultiplexerValue ==
    LET k == CHOOSE j \in 1..Len(message.signals) :
                 message.signals[j].is_multiplexer
    IN  NumberOf(rx[k], type_name(message.signals[k]))

\* C16: for a message with a multiplexer a decode function is generated,
\* and it yields no value for the signals the multiplexer field of the
\* buffer does not select
C16_Multiplexing ==
    (Multiplexed(message) /\ pc # "generate")
    => /\ definition.fmt = "DEFINITION_FMT"
       /\ Decoded => \A k \in Inactive(message, MultiplexerValue) :
                         rx[k] = ZeroMember(definition.members[k])

\* the byte indices of the generated encode and decode bodies
BodyIndices ==
    {definition.encode_body[j].index : j \in DOMAIN definition.encode_body}
        \cup {definition.decode_body[j].index :
                 j \in {i \in DOMAIN definition.decode_body :
                           definition.decode_body[i].kind = "segment"}}

\* C17: every byte index of the generated encode and decode bodies of a
\* message is smaller than the length of the message: no code is emitted
\* for a signal that leaves the frame
C17_MalformedLayout ==
    \A i \in BodyIndices : i < definition.message_length

(***************************************************************************)
(* The command line interface.                                             *)
(***************************************************************************)
\* the signals of the message the last line named
LineSignals ==
    {CliDatabase[line.msg].signals[k] :
        k \in 1..Len(CliDatabase[line.msg].signals)}

\* the last line named a message and fill_data has run for it
Filled == line.kind = "send" /\ line.filled

\* C15: after fill_data every signal of the message has a value: the one
\* the user supplied, else the declared minimum when there is one and 0
\* lies below it, else 0
C15_DefaultSubstitution ==
    Filled =>
        \A sig \in LineSignals :
            /\ sig.name \in DOMAIN line.data
            /\ line.data[sig.name] =
                   IF sig.name \in DOMAIN line.args THEN line.args[sig.name]
                   ELSE IF sig.minimum # None /\ 0 < sig.minimum[1]
                   THEN sig.minimum[1]
                   ELSE 0

\* speed was supplied and kept, gear got its minimum and the frame was sent
C15_Witness ==
    /\ Filled
    /\ line.msg = 1
    /\ DOMAIN line.args = {"speed"}
    /\ line.data["speed"] = line.args["speed"]
    /\ line.data["gear"] = CliDatabase[1].signals[2].minimum[1]
    /\ console.kind = "tx"
    /\ Len(bus) = 1

\* C18: a line whose values encode rejects with EncodeError, or whose node
\* id create_can_id rejects, sends no frame, prints the error, leaves the
\* settings of nodes as they were and returns to the prompt
C18_NoPartialCommit ==
    [][(line'.kind = "send"
            /\ line'.raised_by \in {"create_can_id", "encode"})
       => /\ bus' = bus
          /\ multiple_nodes' = multiple_nodes
          /\ number_node_ids' = number_node_ids
          /\ console'.kind = "ParseError"
          /\ pc' = "prompt"]_vars

\* a frame was sent, then encode rejected the values of a later line
C18_Witness ==
    /\ line.kind = "send"
    /\ line.raised_by = "encode"
    /\ console.kind = "ParseError"
    /\ Len(bus) = 1
    /\ pc = "prompt"

\* a frame has been received and printed
Received == line.kind = "receive" /\ pc = "prompt"

\* the received frame id is what create_can_id makes of the database
\* message m and the node id n, and it is split into (m, n)
SplitsInto(m, n) ==
    create_can_id(m, <<n>>, number_node_ids).can_id = line.arbitration_id
        => /\ console.text.msg_id = m
           /\ console.text.node_id = <<n>>

\* C19 as stated: with the number N of node ids given, a frame with the id
\* create_can_id(m, n) of any database message m and a node id n < N is
\* split into (m, n) on reception
C19_NodeIdRoundTripAsStated ==
    (Received /\ multiple_nodes /\ number_node_ids # None) =>
        \A m \in frame_ids(CliDatabase) :
            \A n \in 0..(number_node_ids[1] - 1) : SplitsInto(m, n)

\* C19: the same for the database messages whose frame id is a multiple
\* of N, the node id bits of the id being 0 as in the docstring of nodes
C19_NodeIdRoundTrip ==
    (Received /\ multiple_nodes /\ number_node_ids # None) =>
        \A m \in {k \in frame_ids(CliDatabase) :
                     k % number_node_ids[1] = 0} :
            \A n \in 0..(number_node_ids[1] - 1) : SplitsInto(m, n)

\* a frame of a database message with a node id other than 0 was received
\* and split
C19_Witness ==
    /\ Received
    /\ multiple_nodes
    /\ number_node_ids # None
    /\ console.text.msg_id \in frame_ids(CliDatabase)
    /\ console.text.msg_id % number_node_ids[1] = 0
    /\ console.text.node_id # <<0>>
    /\ console.text.msg_id + console.text.node_id[1] = line.arbitration_id

\* the largest frame id of the database at or below x
NextSmaller(x) ==
    CHOOSE m \in frame_ids(CliDatabase) :
        /\ m <= x
        /\ \A k \in frame_ids(CliDatabase) : k <= x => k <= m

\* C20: with the nodes feature on and no number of node ids, a received id
\* x is split into (m, x - m), m being the largest frame id of the database
\* that is at or below x, whenever there is one
C20_NodeIdFallback ==
    (line.kind = "receive" /\ multiple_nodes /\ number_node_ids = None
        /\ \E m \in frame_ids(CliDatabase) : m <= line.arbitration_id)
    => /\ pc = "prompt"
       /\ console.text.msg_id = NextSmaller(line.arbitration_id)
       /\ console.text.node_id
              = <<line.arbitration_id - NextSmaller(line.arbitration_id)>>

\* an id that is not in the database was received and split
C20_Witness ==
    /\ Received
    /\ multiple_nodes
    /\ number_node_ids = None
    /\ line.arbitration_id \notin frame_ids(CliDatabase)
    /\ console.text.known
    /\ console.text.node_id = <<MaxNode>>
(***************************************************************************)
(* C21: nodes 0 switches the feature off.                                  *)
(***************************************************************************)
\* the frame handed to bus.send by the line read last
LastSent == bus[Len(bus)]

LineRead == stream[read]

\* what the last turn of iterlines yielded, after the step
Yielded == SubSeq(yielded', Len(yielded) + 1, Len(yielded'))

\* the patterns tried before pattern p
TriedBefore(p) ==
    {Patterns[j] : j \in {j \in 1..Len(Patterns) :
                            \A k \in 1..j : Patterns[k] # p}}

\* C22: Log format detection.  A pattern once set never changes; while
\* none is set, a line sets it exactly when one of the four patterns
\* matches, to the first of them in the order default, timestamped, log,
\* absolute; and a turn yields a frame only for a line that matches the
\* pattern set, so not before the first match and not for a later line of
\* another format.
C22_FormatDetection ==
    [][read' = read + 1 =>
          LET nl == stream[read']
          IN  /\ pattern # None => pattern' = pattern
              /\ pattern = None =>
                     IF \A k \in 1..Len(Patterns) :
                            ~pattern_match(Patterns[k], nl)
                     THEN pattern' = None
                     ELSE /\ pattern' # None
                          /\ pattern_match(pattern'[1], nl)
                          /\ \A q \in TriedBefore(pattern'[1]) :
                                 ~pattern_match(q, nl)
              /\ \A k \in 1..Len(Yielded) :
                     Yielded[k].frame # None =>
                         /\ pattern' # None
                         /\ pattern_match(pattern'[1], nl)]_vars

\* a line of another format was read after the format had been detected,
\* and nothing was yielded for it
C22_Witness ==
    /\ pc = "iterlines"
    /\ read >= 2
    /\ pattern # None
    /\ pattern_match(pattern[1], stream[1])
    /\ ~pattern_match(pattern[1], LineRead)
    /\ \E k \in 1..Len(Patterns) : pattern_match(Patterns[k], LineRead)
    /\ ~keep_unknowns
    /\ Len(yielded) < read

(***************************************************************************)
(* C23: what iterlines yields.                                             *)
(***************************************************************************)
\* the format of the log as far as its first n lines tell: the pattern of
\* the first line that matches one
RECURSIVE FormatAt(_)
FormatAt(n) ==
    IF n = 0 THEN None
    ELSE IF FormatAt(n - 1) # None THEN FormatAt(n - 1)
    ELSE detect_pattern(stream[n])

\* line k of the log can be parsed: it has the format of the log and its
\* fields can be converted
Parsable(k) ==
    /\ FormatAt(k) # None
    /\ pattern_match(FormatAt(k)[1], stream[k])
    /\ unpack(FormatAt(k)[1], stream[k]).raised = ""

\* the tuple for line k: the line and its frame, or the line and None
EntryOf(k) ==
    [line |-> stream[k],
     frame |-> IF Parsable(k) THEN unpack(FormatAt(k)[1], stream[k]).frame
               ELSE None]

\* the tuples for the first n lines, in the order of the lines: one for a
\* line that can be parsed, and for any other line one when keep is set
RECURSIVE EntriesOf(_, _)
EntriesOf(n, keep) ==
    IF n = 0 THEN <<>>
    ELSE EntriesOf(n - 1, keep)
             \o (IF keep \/ Parsable(n) THEN <<EntryOf(n)>> ELSE <<>>)

\* C23: iterlines contract.  After every turn iterlines has yielded, in the
\* order of the lines read, one tuple for every line that can be parsed,
\* and with keep_unknowns one (line, None) for every other line; no turn
\* ends with an exception, and iterlines returns when every line is read.
C23_IterlinesContract ==
    /\ pc \in {"iterlines", "done", "raised"} =>
           yielded = EntriesOf(read, keep_unknowns)
    /\ pc # "raised"
    /\ pc = "done" => read = Len(stream)

(***************************************************************************)
(* C24: the output settings of the two directions.                         *)
(***************************************************************************)
\* the settings of received frames
RxSettings(o) ==
    [raw |-> o.rx_raw, pretty |-> o.rx_pretty,
     single_line |-> o.rx_single_line,
     decode_choices |-> o.rx_decode_choices]

\* the settings of transmitted frames
TxSettings(o) ==
    [raw |-> o.tx_raw, pretty |-> o.tx_pretty,
     single_line |-> o.tx_single_line,
     decode_choices |-> o.tx_decode_choices]

\* what an output command with the options args does in a step: with only
\* --rx the tx settings stay, with only --tx the rx settings stay, with
\* neither both directions get the same values, and the settings of a
\* direction the command sets are those the same command gives after any
\* other settings
PerDirection(args) ==
    LET both == ~args.tx /\ ~args.rx
        fresh == output_command(OutputDefaults, args)
    IN  /\ (args.rx /\ ~args.tx) => TxSettings(settings') = TxSettings(settings)
        /\ (args.tx /\ ~args.rx) => RxSettings(settings') = RxSettings(settings)
        /\ both => RxSettings(settings') = TxSettings(settings')
        /\ (args.rx \/ both) => RxSettings(settings') = RxSettings(fresh)
        /\ (args.tx \/ both) => TxSettings(settings') = TxSettings(fresh)

\* C24 as stated: Output settings per direction, for every output command.
C24_OutputPerDirectionAsStated ==
    [][line'.kind = "output" => PerDirection(line'.args)]_vars

\* C24: Output settings per direction, for every output command without
\* -h: only --rx leaves the tx settings, only --tx leaves the rx settings,
\* neither sets both directions alike, and the settings of a direction set
\* depend on the options only.
C24_OutputPerDirection ==
    [][(line'.kind = "output" /\ ~line'.args.help) =>
          PerDirection(line'.args)]_vars

\* an output command with only --rx has made the directions differ
C24_Witness ==
    /\ line.kind = "output"
    /\ ~line.args.help
    /\ line.args.rx
    /\ ~line.args.tx
    /\ RxSettings(settings) # TxSettings(settings)
    /\ settings # OutputDefaults

(***************************************************************************)
(* C25: the shape of the segment plan.                                     *)
(***************************************************************************)
\* the smaller of two numbers
Min(a, b) == IF a <= b THEN a ELSE b

\* the plan the rule gives from byte index on, at bit_position with
\* remaining bits to place: the byte index and the bits of each segment
RECURSIVE PlanFrom(_, _, _, _)
PlanFrom(byte_order, index, bit_position, remaining) ==
    IF remaining <= 0 THEN <<>>
    ELSE IF byte_order = "little_endian"
    THEN LET n == Min(remaining, 8 - bit_position)
         IN  <<[index |-> index,
                bits |-> bit_position..(bit_position + n - 1)]>>
                 \o PlanFrom(byte_order, index + 1, 0, remaining - n)
    ELSE LET n == Min(remaining, bit_position + 1)
         IN  <<[index |-> index,
                bits |-> (bit_position - n + 1)..bit_position]>>
                 \o PlanFrom(byte_order, index + 1, 7, remaining - n)

\* the number of bits of the first n segments of a plan
RECURSIVE BitsTaken(_, _)
BitsTaken(plan, n) ==
    IF n = 0 THEN 0
    ELSE BitsTaken(plan, n - 1) + Cardinality(BitsOf(plan[n].mask, 8))

\* the segments of a signal have the shape of the plan
HasPlanShape(signal, invert_shift) ==
    LET segments == signal_segments(signal, invert_shift)
        plan == PlanFrom(signal.byte_order, signal.start \div 8,
                         signal.start % 8, signal.length)
    IN  /\ Len(segments) = Len(plan)
        /\ \A j \in 1..Len(segments) :
               /\ segments[j].index = (signal.start \div 8) + j - 1
               /\ segments[j].index = plan[j].index
               /\ BitsOf(segments[j].mask, 8) = plan[j].bits
               /\ plan[j].bits # {}
        /\ BitsTaken(segments, Len(segments)) = signal.length

\* C25: Segment plan shape.  For every signal of the message given to the
\* generator, _signal_segments ends and yields segments at the byte
\* indices start div 8, +1, +2, ...; a little-endian segment takes
\* min(remaining, 8 - bit_position) bits from bit_position upwards and the
\* next starts at bit 0, a big-endian segment takes
\* min(remaining, bit_position + 1) bits from bit_position downwards and
\* the next starts at bit 7; each segment has at least one bit, its mask is
\* the run of exactly those bits, and the bits sum to the length of the
\* signal.
C25_SegmentPlanShape ==
    \A k \in 1..Len(message.signals) :
        \A invert_shift \in BOOLEAN :
            HasPlanShape(message.signals[k], invert_shift)

\* code was generated for a big-endian signal that starts below bit 7 of
\* its byte and goes on in the next byte
C25_Witness ==
    /\ pc = "generated"
    /\ \E k \in 1..Len(message.signals) :
           LET signal == message.signals[k]
           IN  /\ signal.byte_order = "big_endian"
               /\ signal.start % 8 < 7
               /\ Len(signal_segments(signal, FALSE)) >= 2

(***************************************************************************)
(* C26: split_can_id comes to an end.                                      *)
(***************************************************************************)
\* C26: split_can_id terminates.  For every frame received or sent and
\* every setting the nodes command leaves, the call of split_can_id that
\* pretty-printing makes returns: the program never stays in its loop.
C26_SplitTerminates == pc # "hung"

(***************************************************************************)
(* C27: the defaults of fill_data and the declared ranges.                 *)
(***************************************************************************)
\* a number lies within the declared range of a signal
InDeclaredRange(sig, x) ==
    /\ sig.minimum # None => x >= sig.minimum[1]
    /\ sig.maximum # None => x <= sig.maximum[1]

\* C27: Defaults are in range.  After fill_data the value of every signal
\* the user did not supply lies within the declared minimum and maximum of
\* the signal, and when the supplied values lie within theirs encode does
\* not reject the data.
C27_DefaultsInRange ==
    Filled =>
        /\ \A sig \in LineSignals :
               sig.name \notin DOMAIN line.args =>
                   InDeclaredRange(sig, line.data[sig.name])
        /\ (\A sig \in LineSignals :
                sig.name \in DOMAIN line.args =>
                    InDeclaredRange(sig, line.args[sig.name]))
               => line.raised_by # "encode"

(***************************************************************************)
(* C28: a frame is sent for exactly one matching message.                  *)
(***************************************************************************)
\* a line was typed and processed
Typed == line.kind = "typed"

\* a word without its anchors
Unanchored(word) ==
    LET from == IF word # <<>> /\ word[1] = "^" THEN 2 ELSE 1
        rest == SubSeq(word, from, Len(word))
    IN  IF rest # <<>> /\ rest[Len(rest)] = "$"
        THEN SubSeq(rest, 1, Len(rest) - 1)
        ELSE rest

AnchoredAtStart(word) == word # <<>> /\ word[1] = "^"

AnchoredAtEnd(word) ==
    LET from == IF AnchoredAtStart(word) THEN 2 ELSE 1
    IN  Len(word) >= from /\ word[Len(word)] = "$"

\* the word selects the message: by its frame id in hexadecimal when the
\* word starts with a digit, else by a part of its name without regard to
\* case, at the start of the name after ^ and at its end before $
Selects(word, msg) ==
    IF is_int(word)
    THEN parse_int(word).raised = "" /\ parse_int(word).value = msg.frame_id
    ELSE LET part == Unanchored(word)
         IN  \E at \in 1..(Len(msg.name) + 1) :
                 /\ at + Len(part) - 1 <= Len(msg.name)
                 /\ \A k \in 1..Len(part) :
                        lower(msg.name[at + k - 1]) = lower(part[k])
                 /\ AnchoredAtStart(word) => at = 1
                 /\ AnchoredAtEnd(word) => at + Len(part) - 1 = Len(msg.name)

\* the messages of the database a word selects
Selected(word) ==
    {k \in 1..Len(LineDatabase) : Selects(word, LineDatabase[k])}

\* C28: Exactly-one-match sending.  A line sends at most one frame, and
\* sends one only if its first word is no name or alias of an internal
\* command and selects exactly one message of the database; the frame is
\* one of that message.
C28_ExactlyOneMatch ==
    [][line'.kind = "typed" =>
          /\ Len(bus') <= Len(bus) + 1
          /\ bus' # bus =>
                 /\ line'.ln[1] \notin internal_commands
                 /\ Cardinality(Selected(line'.ln[1])) = 1
                 /\ \A k \in Selected(line'.ln[1]) :
                        bus'[Len(bus')].arbitration_id
                            >= LineDatabase[k].frame_id]_vars

\* a frame was sent for a word anchored at the start of a name, a word
\* that but for its case is the alias of an internal command
C28_Witness ==
    /\ Typed
    /\ line.ln[1] = <<"^", "q">>
    /\ console.kind = "tx"
    /\ Len(bus) = 1
    /\ bus[1].arbitration_id = 48

(***************************************************************************)
(* C29: a malformed line does not end the loop.                            *)
(***************************************************************************)
\* an argument of the line holds the separator more than once
SeparatorTwice(ln) == \E k \in 2..Len(ln) : count_sep(ln[k]) > 1

\* the first word starts with a digit and is no hexadecimal number
NotHexadecimal(ln) == is_int(ln[1]) /\ parse_int(ln[1]).raised # ""

\* C29: Malformed input never ends the prompt loop.  After every line the
\* loop reads the next or was left by the quit command; a line that raised
\* an error, one with the separator twice in an argument and one whose
\* first word starts with a digit without being hexadecimal is reported as
\* a ParseError, sends nothing and leaves the loop running.
C29_MalformedInput ==
    [][line'.kind = "typed" =>
          /\ pc' \in {"prompt", "quit"}
          /\ pc' = "quit" =>
                 line'.ln[1] \in {<<"q", "u", "i", "t">>, <<"q">>}
          /\ (\/ line'.raised \notin {"", "QuitException"}
              \/ (line'.ln[1] \notin internal_commands
                    /\ SeparatorTwice(line'.ln))
              \/ NotHexadecimal(line'.ln)) =>
                 /\ console'.kind = "ParseError"
                 /\ bus' = bus
                 /\ pc' = "prompt"]_vars

====
